---- MODULE Spec2Model ----
(***************************************************************************)
(* A model of the dioxus virtual-tree reconciliation core:                 *)
(*   packages/core/src/diffable.rs        node and sibling-list diffing    *)
(*   packages/core/src/create.rs          template creation and suspense   *)
(*   packages/core/src/mutations.rs       the mutation log                 *)
(*   packages/core/src/scheduler/mod.rs   the copyable message channel     *)
(*   packages/interpreter/src/sledgehammer_bindings.rs  the edit applier   *)
(*                                                                         *)
(* The diffing code is sequential and deterministic once its inputs are    *)
(* fixed, so each routine is an operator that maps a registry value to the *)
(* registry value the routine leaves behind, and each entry point is one   *)
(* action.  A Rust panic (unwrap on None, expect, todo!) is recorded in    *)
(* the registry and stops every later step of the same call.               *)
(***************************************************************************)
EXTENDS Integers, Sequences, FiniteSets, TLC

\* ------------------------------------------------------------------ bounds
\* Longest sibling list the list specifications enumerate.
MaxLen == 4
\* Most messages one behaviour of the channel specification sends.
MaxSend == 4
\* Number of distinct message values (1 .. MaxMsg).
MaxMsg == 2
\* Most Sender handles (copies included) one behaviour takes.
MaxSenders == 2
\* Deepest nesting of components below the two components of the root template.
MaxDepth == 1
\* Most messages waiting in the scheduler's two channels together.
MaxQueue == 2
\* Most futures (spawned tasks and suspended leaves) one behaviour stores.
MaxTasks == 2
\* Longest subscriber list of the signal.
MaxSubs == 2
\* Most scopes one behaviour mounts, the root included.
MaxScopes == 5
\* Longest mutation log the log specification starts from.
MaxLog == 2
\* Most owners one store hands out.
MaxOwners == 2
\* Most values inserted into one store.
MaxHandles == 3
\* Most provide_context calls of one behaviour.
MaxProvides == 3
\* Most nodes one tree holds at a time.
MaxNodes == 4
\* Most children of one anchor fragment.
MaxChildren == 2
\* Most replace calls on one tree.
MaxReplaces == 1

VARIABLES
    pc,         \* position of the modelled call: "start", "diffed", "applied", ...
    old,        \* the previous sibling list (or the single previous node)
    new,        \* the newly rendered sibling list (or the single new node)
    reg,        \* VDomRegestry: edits, nodes_to_place, force_diff, scopes, + ghosts
    dom,        \* ids of the rendered siblings, in document order
    stack,      \* the applier's node stack
    ip,         \* number of edits of reg.edits the applier has executed
    messages,   \* Messages<T>.messages, the VecDeque behind Receiver / Sender
    sent,       \* ghost: every message pushed so far, in push order
    received,   \* ghost: every message a receive returned so far, in order
    last_recv,  \* ghost: the latest receive, its result and the backlog it met
    senders,    \* the live Sender handles, each the address its raw pointer holds
    vd          \* VirtualDom state used by create: templates, scopes, logs, ...

diffVars == <<pc, old, new, reg, dom, stack, ip>>
chanVars == <<messages, sent, received, last_recv, senders>>
vars == <<diffVars, chanVars, vd>>

\* ------------------------------------------------------------ small helpers
None == 0

Min(a, b) == IF a < b THEN a ELSE b
Max(a, b) == IF a > b THEN a ELSE b

Range(s) == {s[i] : i \in 1..Len(s)}

Injective(s) == \A i, j \in 1..Len(s) : s[i] = s[j] => i = j

\* s[a..b] with Rust's half-open, zero-based slice bounds: &s[a..b]
Slice(s, a, b) == [i \in 1..(b - a) |-> s[a + i]]

RECURSIVE SeqsUpTo(_, _)
SeqsUpTo(S, n) ==
    IF n = 0 THEN {<<>>}
    ELSE LET shorter == SeqsUpTo(S, n - 1)
         IN  shorter \cup {Append(s, x) : s \in {t \in shorter : Len(t) = n - 1}, x \in S}

\* ----------------------------------------------------------------- nodes
\* VNode: one record shape for the five variants.  key = "" is no key, id = None
\* is an empty id cell, addr is the node's address (std::ptr::eq compares it).
Node(kind, key, id, addr, text) ==
    [kind |-> kind, key |-> key, id |-> id, addr |-> addr, text |-> text,
     tag |-> "div", namespace |-> "", attributes |-> <<>>, listeners |-> <<>>,
     children |-> <<>>, user_fc |-> "", can_memoize |-> FALSE, props |-> None,
     scope |-> None]

Attr(name, value, is_volatile) == [name |-> name, value |-> value, is_volatile |-> is_volatile]

Listener(event, mounted_node) == [event |-> event, mounted_node |-> mounted_node]

ptr_eq(a, b) == a.addr = b.addr

\* ------------------------------------------------------------- mutations
\* One record shape for every Mutation variant: id is the ElementId (or ScopeId) the
\* edit addresses, m its node count, name / value its strings.
MutN(op, id, m, name, value) ==
    [op |-> op, id |-> id, m |-> m, name |-> name, value |-> value]

Mut(op, id, m, value) == MutN(op, id, m, "", value)

\* ------------------------------------------------------------- registry
\* trace is a ghost log of the node-level calls: a diff with the addresses of the
\* new and the old node, a create or destroy with the node's address and id;
\* runs counts the render-function calls; mid keeps what diff_keyed_middle
\* computed: its new_index_to_old_index, its lis_sequence, and the address of the
\* first node of the new middle window.
NoMiddle == [idx |-> <<>>, lis |-> <<>>, first |-> None]

\* ends keeps the offsets diff_keyed_ends returned, if it returned any.
NoEnds == [some |-> FALSE, left_offset |-> 0, right_offset |-> 0]

NewScope(props, wip, fin) == [props |-> props, wip |-> wip, fin |-> fin]

Registry(force_diff, scopes, preassign, first_free) ==
    [force_diff |-> force_diff, nodes_to_place |-> 0, edits |-> <<>>,
     scopes |-> scopes, panicked |-> FALSE, panic_at |-> "",
     trace |-> <<>>, runs |-> 0, preassign |-> preassign, next_id |-> first_free,
     ids |-> <<>>, mid |-> NoMiddle, ends |-> NoEnds]

\* The id cell of a node (Cell<Option<ElementId>>): the value it was built with,
\* unless this pass has stored another one (ids, by the node's address).
id_get(n, r) == IF n.addr \in DOMAIN r.ids THEN r.ids[n.addr] ELSE n.id

id_set(n, id, r) ==
    [r EXCEPT !.ids = [a \in DOMAIN @ \cup {n.addr} |-> IF a = n.addr THEN id ELSE @[a]]]

Panic(r, where) ==
    IF r.panicked THEN r ELSE [r EXCEPT !.panicked = TRUE, !.panic_at = where]

Emit(r, m) ==
    IF r.panicked THEN r ELSE [r EXCEPT !.edits = Append(@, m)]

Log(r, ev, a, b) ==
    IF r.panicked THEN r
    ELSE [r EXCEPT !.trace = Append(@, [ev |-> ev, a |-> a, b |-> b])]

take_created(r) == [r EXCEPT !.nodes_to_place = 0]

\* ------------------------------------------------------------------ VText
VText_create(n, r) ==
    IF r.panicked THEN r
    ELSE IF id_get(n, r) = None THEN Panic(r, "VText::create: id unwrap")
    ELSE Emit(Log(r, "create", n.addr, id_get(n, r)), Mut("CreateTextNode", id_get(n, r), 0, n.text))

VText_destroy(n, r) ==
    IF r.panicked THEN r
    ELSE IF id_get(n, r) # None THEN Emit(Log(r, "destroy", n.addr, id_get(n, r)), Mut("Remove", id_get(n, r), 0, ""))
    ELSE Log(r, "destroy", n.addr, id_get(n, r))

VText_diff(self, other, r) ==
    IF r.panicked THEN r
    ELSE IF ptr_eq(self, other) THEN r
    ELSE IF self.text # other.text
         THEN IF id_get(self, r) = None THEN Panic(r, "VText::diff: id unwrap")
              ELSE Emit(r, Mut("SetText", id_get(self, r), 0, other.text))
         ELSE r

\* ----------------------------------------------------------- VPlaceholder
VPlaceholder_create(n, r) ==
    IF r.panicked THEN r
    ELSE IF id_get(n, r) = None THEN Panic(r, "VPlaceholder::create: id unwrap")
    ELSE Emit(Log(r, "create", n.addr, id_get(n, r)), Mut("CreatePlaceholder", id_get(n, r), 0, ""))

VPlaceholder_destroy(n, r) ==
    IF r.panicked THEN r
    ELSE IF id_get(n, r) = None THEN Panic(r, "VPlaceholder::destroy: id unwrap")
    ELSE Emit(Log(r, "destroy", n.addr, id_get(n, r)), Mut("Remove", id_get(n, r), 0, ""))

VPlaceholder_diff(self, other, r) == r

\* --------------------------------------------------------------- VElement
VElement_create(n, r) == Panic(r, "VElement::create: todo!()")

VElement_destroy(n, r) == Panic(r, "VElement::destroy: todo!()")

RECURSIVE diff_attributes_zip(_, _, _, _, _)
diff_attributes_zip(old_attrs, new_attrs, i, root, r) ==
    IF i > Len(new_attrs) THEN r
    ELSE LET o == old_attrs[i]
             n == new_attrs[i]
             r1 == IF o.value # n.value \/ n.is_volatile
                   THEN Emit(r, MutN("SetAttribute", root, 0, n.name, n.value))
                   ELSE r
         IN  diff_attributes_zip(old_attrs, new_attrs, i + 1, root, r1)

RECURSIVE remove_attributes(_, _, _, _)
remove_attributes(attrs, i, root, r) ==
    IF i > Len(attrs) THEN r
    ELSE remove_attributes(attrs, i + 1, root,
                           Emit(r, MutN("RemoveAttribute", root, 0, attrs[i].name, "")))

RECURSIVE set_attributes(_, _, _, _)
set_attributes(attrs, i, root, r) ==
    IF i > Len(attrs) THEN r
    ELSE set_attributes(attrs, i + 1, root,
                        Emit(r, MutN("SetAttribute", root, 0, attrs[i].name, attrs[i].value)))

diff_attributes(self, other, root, r) ==
    IF Len(other.attributes) = Len(self.attributes)
    THEN diff_attributes_zip(other.attributes, self.attributes, 1, root, r)
    ELSE set_attributes(self.attributes, 1, root,
                        remove_attributes(other.attributes, 1, root, r))

RECURSIVE diff_listeners_zip(_, _, _, _, _)
diff_listeners_zip(old_ls, new_ls, i, root, r) ==
    IF i > Len(new_ls) THEN r
    ELSE LET o == old_ls[i]
             n == new_ls[i]
             r1 == IF o.event # n.event
                   THEN Emit(Emit(r, MutN("RemoveEventListener", root, 0, o.event, "")),
                             MutN("NewEventListener", n.mounted_node, 0, n.event, ""))
                   ELSE r
         IN  diff_listeners_zip(old_ls, new_ls, i + 1, root, r1)

RECURSIVE remove_listeners(_, _, _, _)
remove_listeners(ls, i, root, r) ==
    IF i > Len(ls) THEN r
    ELSE remove_listeners(ls, i + 1, root,
                          Emit(r, MutN("RemoveEventListener", root, 0, ls[i].event, "")))

RECURSIVE new_listeners(_, _, _, _)
new_listeners(ls, i, root, r) ==
    IF i > Len(ls) THEN r
    ELSE new_listeners(ls, i + 1, root,
                       Emit(r, MutN("NewEventListener", root, 0, ls[i].event, "")))

diff_listeners(self, other, root, r) ==
    IF Len(other.listeners) = Len(self.listeners)
    THEN diff_listeners_zip(other.listeners, self.listeners, 1, root, r)
    ELSE new_listeners(self.listeners, 1, root,
                       remove_listeners(other.listeners, 1, root, r))

\* The children of the two elements are not visited: the match over the child
\* lists is commented out in the source.
VElement_diff(self, other, r) ==
    IF r.panicked THEN r
    ELSE IF ptr_eq(self, other) THEN r
    ELSE IF id_get(self, r) = None THEN Panic(r, "VElement::diff: id unwrap")
    ELSE IF self.tag # other.tag \/ self.namespace # other.namespace THEN r
    ELSE diff_listeners(self, other, id_get(self, r), diff_attributes(self, other, id_get(self, r), r))

\* ------------------------------------------------- scopes (ScopeArena)
\* A scope keeps its stored props and its two tree buffers: fin is the tree the
\* latest render produced, wip the one before it.
TextOf(props) == IF props = 1 THEN "a" ELSE "b"

\* AnyProps::memoize for props that implement PartialEq.
memoize(stored, incoming) == stored = incoming

\* ScopeArena::run_scope: calls the component's render function on the stored
\* props and cycles the buffers.  The render function of the model returns one
\* text node showing the props.
run_scope(sid, r) ==
    IF r.panicked THEN r
    ELSE LET sc == r.scopes[sid]
             fresh == IF r.preassign THEN r.next_id ELSE None
             root == Node("Text", "", fresh, sc.fin.addr + 1, TextOf(sc.props))
         IN  [r EXCEPT !.runs = @ + 1,
                       !.next_id = IF r.preassign THEN @ + 1 ELSE @,
                       !.scopes[sid] = [props |-> sc.props, wip |-> sc.fin, fin |-> root]]

\* ------------------------------------------------ longest increasing subsequence
\* u32::MAX as usize, the "not present in old" sentinel.  The code compares it
\* with indices of old (all smaller) and tests it for equality; 4294967295 is
\* beyond the model checker's integers, so their largest value stands for it.
U32_MAX == 2147483647

\* longest_increasing_subsequence::lis_with(items, out, |a, b| a < b, predecessors,
\* starts).  Indices are zero-based as in the crate; items is a TLA+ sequence, so
\* item i is items[i + 1].  The result is the out sequence in the order the crate
\* extends it (last index of the subsequence first).
RECURSIVE lis_search(_, _, _, _, _)
lis_search(items, starts, i, lo, hi) ==
    IF lo < hi
    THEN LET mid == (lo + hi) \div 2
         IN  IF items[starts[mid] + 1] < items[i + 1]
             THEN lis_search(items, starts, i, mid + 1, hi)
             ELSE lis_search(items, starts, i, lo, mid)
    ELSE lo

RECURSIVE lis_loop(_, _, _, _, _)
lis_loop(items, i, k, starts, predecessors) ==
    IF i >= Len(items) THEN [k |-> k, starts |-> starts, predecessors |-> predecessors]
    ELSE LET j == starts[k]
         IN  IF items[j + 1] < items[i + 1]
             THEN lis_loop(items, i + 1, k + 1,
                           [starts EXCEPT ![k + 1] = i],
                           [predecessors EXCEPT ![i] = j])
             ELSE LET lo == lis_search(items, starts, i, 0, k)
                  IN  IF items[i + 1] < items[starts[lo] + 1]
                      THEN lis_loop(items, i + 1, k,
                                    [starts EXCEPT ![lo] = i],
                                    IF lo > 0
                                    THEN [predecessors EXCEPT ![i] = starts[lo - 1]]
                                    ELSE predecessors)
                      ELSE lis_loop(items, i + 1, k, starts, predecessors)

RECURSIVE lis_collect(_, _, _, _)
lis_collect(predecessors, u, v, out) ==
    IF u = 0 THEN out
    ELSE lis_collect(predecessors, u - 1, predecessors[v], Append(out, v))

\* lis_with collecting one index less than the length it found.
lis_with_one_short(items) ==
    IF Len(items) = 0 THEN <<>>
    ELSE LET zero == [i \in 0..(Len(items) - 1) |-> 0]
             st == lis_loop(items, 1, 0, zero, zero)
         IN  lis_collect(st.predecessors, st.k, st.starts[st.k], <<>>)

lis_with(items) ==
    IF Len(items) = 0 THEN <<>>
    ELSE LET zero == [i \in 0..(Len(items) - 1) |-> 0]
             st == lis_loop(items, 1, 0, zero, zero)
         IN  lis_collect(st.predecessors, st.k + 1, st.starts[st.k], <<>>)

\* Vec::sort_unstable on a vector of distinct indices.
RECURSIVE sort_unstable(_)
sort_unstable(s) ==
    IF Len(s) = 0 THEN <<>>
    ELSE LET least == CHOOSE x \in Range(s) : \A y \in Range(s) : x <= y
         IN  <<least>> \o sort_unstable(SelectSeq(s, LAMBDA y : y # least))

\* ------------------------------------------------------ anchor lookup
\* Both return the Option<ElementId> of the loop's break (None is an empty id
\* cell), or Unwrapped when the loop itself panics on a missing node or scope.
Unwrapped == -1

RECURSIVE find_last_element(_, _)

\* find_last_element taking a fragment's first child.
find_last_element_first_child(vnode, r) ==
    CASE vnode.kind \in {"Text", "Element", "Placeholder"} -> id_get(vnode, r)
      [] vnode.kind = "Fragment" ->
            IF Len(vnode.children) = 0 THEN Unwrapped
            ELSE find_last_element(vnode.children[1], r)
      [] vnode.kind = "Component" ->
            IF vnode.scope = None \/ vnode.scope \notin DOMAIN r.scopes THEN Unwrapped
            ELSE find_last_element(r.scopes[vnode.scope].fin, r)

find_last_element(vnode, r) ==
    CASE vnode.kind \in {"Text", "Element", "Placeholder"} -> id_get(vnode, r)
      [] vnode.kind = "Fragment" ->
            IF Len(vnode.children) = 0 THEN Unwrapped
            ELSE find_last_element(vnode.children[Len(vnode.children)], r)
      [] vnode.kind = "Component" ->
            IF vnode.scope = None \/ vnode.scope \notin DOMAIN r.scopes THEN Unwrapped
            ELSE find_last_element(r.scopes[vnode.scope].fin, r)

RECURSIVE find_first_element(_, _)
find_first_element(vnode, r) ==
    CASE vnode.kind \in {"Text", "Element", "Placeholder"} -> id_get(vnode, r)
      [] vnode.kind = "Fragment" ->
            IF Len(vnode.children) = 0 THEN Unwrapped
            ELSE find_first_element(vnode.children[1], r)
      [] vnode.kind = "Component" ->
            IF vnode.scope = None \/ vnode.scope \notin DOMAIN r.scopes THEN Unwrapped
            ELSE find_first_element(r.scopes[vnode.scope].fin, r)

\* registry.mutations.insert_after(find_last_element(after).unwrap(), m)
insert_after(after, m, r) ==
    IF r.panicked THEN r
    ELSE LET last == find_last_element(after, r)
         IN  IF last = None \/ last = Unwrapped
             THEN Panic(r, "find_last_element: unwrap")
             ELSE Emit(r, Mut("InsertAfter", last, m, ""))

\* registry.mutations.insert_before(find_first_element(before).unwrap(), m)
insert_before(before, m, r) ==
    IF r.panicked THEN r
    ELSE LET first == find_first_element(before, r)
         IN  IF first = None \/ first = Unwrapped
             THEN Panic(r, "find_first_element: unwrap")
             ELSE Emit(r, Mut("InsertBefore", first, m, ""))

\* ------------------------------------------------------ VNode create / destroy
VComponent_create(n, r) == Panic(r, "VComponent::create: todo!()")

VComponent_destroy(n, r) == Panic(r, "VComponent::destroy: todo!()")

VFragment_create(n, r) == Panic(r, "VFragment::create: todo!()")

VFragment_destroy(n, r) == Panic(r, "VFragment::destroy: todo!()")

VNode_create(n, r) ==
    CASE n.kind = "Text" -> VText_create(n, r)
      [] n.kind = "Element" -> VElement_create(n, r)
      [] n.kind = "Fragment" -> VFragment_create(n, r)
      [] n.kind = "Component" -> VComponent_create(n, r)
      [] n.kind = "Placeholder" -> VPlaceholder_create(n, r)

VNode_destroy(n, r) ==
    CASE n.kind = "Text" -> VText_destroy(n, r)
      [] n.kind = "Element" -> VElement_destroy(n, r)
      [] n.kind = "Fragment" -> VFragment_destroy(n, r)
      [] n.kind = "Component" -> VComponent_destroy(n, r)
      [] n.kind = "Placeholder" -> VPlaceholder_destroy(n, r)

\* <&[VNode] as Diffable>::create and ::destroy
RECURSIVE slice_create(_, _)
slice_create(nodes, r) ==
    IF Len(nodes) = 0 THEN r
    ELSE slice_create(Tail(nodes), VNode_create(Head(nodes), r))

RECURSIVE slice_destroy(_, _)
slice_destroy(nodes, r) ==
    IF Len(nodes) = 0 THEN r
    ELSE slice_destroy(Tail(nodes), VNode_destroy(Head(nodes), r))

\* Ghost: after nodes.create(registry) turned r into r1, the trace notes how
\* many create calls were made for this placement and the pending counter.
note_placed(r, r1) ==
    LET creates(t) == Cardinality({i \in 1..Len(t) : t[i].ev = "create"})
    IN  Log(r1, "place", creates(r1.trace) - creates(r.trace), r1.nodes_to_place)

\* let created = registry.take_created(); insert_after(last, created), on the
\* registry r1 that nodes.create left
insert_created_after(after, r1) == insert_after(after, r1.nodes_to_place, take_created(r1))

create_and_insert_after(nodes, after, r) ==
    insert_created_after(after, note_placed(r, slice_create(nodes, r)))

\* let created = registry.nodes_to_place; insert_before(first, created)
insert_created_before(before, r1) == insert_before(before, r1.nodes_to_place, r1)

create_and_insert_before(nodes, before, r) ==
    insert_created_before(before, note_placed(r, slice_create(nodes, r)))

\* let created = registry.take_created(); append_children(created)
append_created(r1) == Emit(take_created(r1), Mut("AppendChildren", None, r1.nodes_to_place, ""))

create_and_append_children(nodes, r) ==
    append_created(note_placed(r, slice_create(nodes, r)))

\* ------------------------------------------- helpers of the former DiffState
\* diff_keyed_middle still calls these through self; their definitions are not
\* part of the file.  Every keyed child of the model renders to one real node.
create_node(n, r) ==
    IF r.panicked THEN r
    ELSE LET id == IF id_get(n, r) # None THEN id_get(n, r) ELSE r.next_id
             r1 == IF id_get(n, r) # None THEN r
                   ELSE id_set(n, r.next_id, [r EXCEPT !.next_id = @ + 1])
             op == CASE n.kind = "Text" -> "CreateTextNode"
                     [] n.kind = "Placeholder" -> "CreatePlaceholder"
                     [] OTHER -> "CreateElement"
         IN  Emit(Log(r1, "create", n.addr, id), Mut(op, id, 0, n.text))

push_all_real_nodes(n, r) ==
    IF r.panicked THEN r
    ELSE IF id_get(n, r) = None THEN Panic(r, "push_all_real_nodes: node has no id")
    ELSE Emit(r, Mut("PushRoot", id_get(n, r), 0, ""))

remove_nodes(n, r) ==
    IF r.panicked THEN r
    ELSE Emit(Log(r, "destroy", n.addr, id_get(n, r)), Mut("Remove", id_get(n, r), 0, ""))

replace_inner(n, m, r) ==
    IF r.panicked THEN r
    ELSE Emit(Log(r, "destroy", n.addr, id_get(n, r)),
              Mut("ReplaceWith", id_get(n, r), m, ""))

\* self.diff_node(old, new) on two keyed siblings with the same key: the new node
\* takes over the old node's ElementId, and a changed text is set on that id.
diff_node(old_node, new_node, r) ==
    IF r.panicked THEN r
    ELSE LET r1 == Log(id_set(new_node, id_get(old_node, r), r),
                       "diff", new_node.addr, old_node.addr)
         IN  IF new_node.kind = "Text" /\ old_node.kind = "Text"
                /\ new_node.text # old_node.text
             THEN Emit(r1, Mut("SetText", id_get(old_node, r), 0, new_node.text))
             ELSE r1

\* ------------------------------------------------------------ node diff
RECURSIVE VNode_diff(_, _, _)
RECURSIVE children_diff(_, _, _)

\* for (new, old) in new.iter().zip(old.iter()) { new.diff(old, registry) }
RECURSIVE diff_zip(_, _, _, _)
diff_zip(old_nodes, new_nodes, i, r) ==
    IF i > Min(Len(old_nodes), Len(new_nodes)) THEN r
    ELSE diff_zip(old_nodes, new_nodes, i + 1, VNode_diff(new_nodes[i], old_nodes[i], r))

diff_non_keyed_children(old_nodes, new_nodes, r) ==
    IF r.panicked THEN r
    ELSE IF Len(new_nodes) = 0 \/ Len(old_nodes) = 0
         THEN Panic(r, "diff_non_keyed_children: debug_assert non-empty")
    ELSE diff_zip(old_nodes, new_nodes, 1,
                  IF Len(old_nodes) > Len(new_nodes)
                  THEN slice_destroy(Slice(old_nodes, Len(new_nodes), Len(old_nodes)), r)
                  ELSE IF Len(old_nodes) < Len(new_nodes)
                  THEN create_and_insert_after(
                           Slice(new_nodes, Len(old_nodes), Len(new_nodes)),
                           old_nodes[Len(old_nodes)], r)
                  ELSE r)

\* ------------------------------------------------------------ keyed diff
\* The first loop of diff_keyed_ends: diff the pairs that share a key, from the
\* left, until the keys differ.  i is the one-based position of the next pair.
RECURSIVE keyed_prefix(_, _, _, _)
keyed_prefix(old_nodes, new_nodes, i, r) ==
    IF i > Min(Len(old_nodes), Len(new_nodes)) \/ old_nodes[i].key # new_nodes[i].key
    THEN [r |-> r, offset |-> i - 1]
    ELSE keyed_prefix(old_nodes, new_nodes, i + 1, VNode_diff(new_nodes[i], old_nodes[i], r))

\* The second loop: the same from the right, over the reversed lists.
RECURSIVE keyed_suffix(_, _, _, _)
keyed_suffix(old_nodes, new_nodes, k, r) ==
    IF k >= Min(Len(old_nodes), Len(new_nodes))
       \/ old_nodes[Len(old_nodes) - k].key # new_nodes[Len(new_nodes) - k].key
    THEN [r |-> r, offset |-> k]
    ELSE keyed_suffix(old_nodes, new_nodes, k + 1,
                      VNode_diff(new_nodes[Len(new_nodes) - k], old_nodes[Len(old_nodes) - k], r))

\* Ghost: the offsets returned with Some.
note_ends(r, left_offset, right_offset) ==
    IF r.panicked THEN r
    ELSE [r EXCEPT !.ends = [some |-> TRUE, left_offset |-> left_offset,
                             right_offset |-> right_offset]]

\* Some((left_offset, right_offset)) after the walk from the right gave suf.
some_ends(left_offset, suf) ==
    [r |-> note_ends(suf.r, left_offset, suf.offset), some |-> TRUE,
     left_offset |-> left_offset, right_offset |-> suf.offset]

\* The rest of diff_keyed_ends after the walk from the left gave pre.
diff_keyed_ends_from(old_nodes, new_nodes, pre) ==
    IF pre.offset = Len(old_nodes)
    THEN [r |-> create_and_insert_after(Slice(new_nodes, pre.offset, Len(new_nodes)),
                                        old_nodes[Len(old_nodes)], pre.r),
          some |-> FALSE, left_offset |-> pre.offset, right_offset |-> 0]
    ELSE IF pre.offset = Len(new_nodes)
    THEN [r |-> slice_destroy(Slice(old_nodes, pre.offset, Len(old_nodes)), pre.r),
          some |-> FALSE, left_offset |-> pre.offset, right_offset |-> 0]
    ELSE some_ends(pre.offset, keyed_suffix(old_nodes, new_nodes, 0, pre.r))

\* diff_keyed_ends without its two early returns: the walk from the right is
\* made whatever the walk from the left consumed.
diff_keyed_ends_walks_on(old_nodes, new_nodes, r) ==
    LET pre == keyed_prefix(old_nodes, new_nodes, 1, r)
    IN  some_ends(pre.offset, keyed_suffix(old_nodes, new_nodes, 0, pre.r))

\* Returns the registry and the Option<(left_offset, right_offset)>.
diff_keyed_ends(old_nodes, new_nodes, r) ==
    diff_keyed_ends_from(old_nodes, new_nodes, keyed_prefix(old_nodes, new_nodes, 1, r))

\* new_index_to_old_index: zero-based index in old of each new key, or U32_MAX.
new_index_to_old_index(old_nodes, new_nodes) ==
    [i \in 1..Len(new_nodes) |->
        IF \E j \in 1..Len(old_nodes) : old_nodes[j].key = new_nodes[i].key
        THEN (CHOOSE j \in 1..Len(old_nodes) : old_nodes[j].key = new_nodes[i].key) - 1
        ELSE U32_MAX]

shared_keys(old_nodes, new_nodes) ==
    {new_nodes[i].key : i \in {j \in 1..Len(new_nodes) :
                                 \E k \in 1..Len(old_nodes) : old_nodes[k].key = new_nodes[j].key}}

\* for child in old { if !shared_keys.contains(key) { remove_nodes([child]) } }
RECURSIVE remove_unshared(_, _, _, _)
remove_unshared(old_nodes, shared, i, r) ==
    IF i > Len(old_nodes) THEN r
    ELSE remove_unshared(old_nodes, shared, i + 1,
                         IF old_nodes[i].key \notin shared
                         THEN remove_nodes(old_nodes[i], r) ELSE r)

\* lis_sequence with the pop made whatever the last entry is.
lis_sequence_pops_always(idx) ==
    LET sorted == sort_unstable(lis_with(idx))
    IN  IF Len(sorted) > 0 THEN SubSeq(sorted, 1, Len(sorted) - 1) ELSE sorted

\* lis_with, sort_unstable, and the pop of a trailing sentinel.
lis_sequence(idx) ==
    LET sorted == sort_unstable(lis_with(idx))
    IN  IF Len(sorted) > 0 /\ idx[sorted[Len(sorted)] + 1] = U32_MAX
        THEN SubSeq(sorted, 1, Len(sorted) - 1)
        ELSE sorted

\* for idx in &lis_sequence { diff_node(&old[new_index_to_old_index[idx]], &new[idx]) }
RECURSIVE diff_lis(_, _, _, _, _, _)
diff_lis(old_nodes, new_nodes, idx, lis, t, r) ==
    IF t > Len(lis) THEN r
    ELSE diff_lis(old_nodes, new_nodes, idx, lis, t + 1,
                  diff_node(old_nodes[idx[lis[t] + 1] + 1], new_nodes[lis[t] + 1], r))

\* The body shared by the three mount loops, over new[from..to]: a node that is
\* not in old is created, any other is diffed and pushed; n counts the nodes.
\* The loops after the sequence and between its members diff with
\* self.diff_node, the loop before the sequence with new_node.diff (ported).
mount_one(old_nodes, new_node, old_index, ported, r) ==
    IF old_index = U32_MAX
    THEN create_node(new_node, r)
    ELSE push_all_real_nodes(new_node,
             IF ported
             THEN VNode_diff(new_node, old_nodes[old_index + 1], r)
             ELSE diff_node(old_nodes[old_index + 1], new_node, r))

RECURSIVE mount_range(_, _, _, _, _, _, _)
mount_range(old_nodes, new_nodes, idx, from, to, ported, acc) ==
    IF from >= to THEN acc
    ELSE mount_range(old_nodes, new_nodes, idx, from + 1, to, ported,
                     [r |-> mount_one(old_nodes, new_nodes[from + 1], idx[from + 1],
                                      ported, acc.r),
                      n |-> acc.n + 1])

\* mutations.insert_after / insert_before with the nodes_created of a mount loop
insert_mounted_after(after, acc) == insert_after(after, acc.n, acc.r)

insert_mounted_before(before, acc) == insert_before(before, acc.n, acc.r)

\* "for each spacing, generate a mount instruction": t walks the sorted sequence
\* from its end, with last = lis[t + 1] and next = lis[t].
RECURSIVE mount_gaps(_, _, _, _, _, _)
mount_gaps(old_nodes, new_nodes, idx, lis, t, r) ==
    IF t < 1 THEN r
    ELSE mount_gaps(old_nodes, new_nodes, idx, lis, t - 1,
                    IF lis[t + 1] - lis[t] > 1
                    THEN insert_mounted_before(
                             new_nodes[lis[t + 1] + 1],
                             mount_range(old_nodes, new_nodes, idx, lis[t] + 1, lis[t + 1],
                                         FALSE, [r |-> r, n |-> 0]))
                    ELSE r)

\* "add mount instruction for the last items not covered by the lis", on the
\* registry r4 the loops before it left
mount_before_lis(old_nodes, new_nodes, idx, first_lis, r4) ==
    IF first_lis > 0
    THEN insert_mounted_before(
             new_nodes[first_lis + 1],
             mount_range(old_nodes, new_nodes, idx, 0, first_lis, TRUE, [r |-> r4, n |-> 0]))
    ELSE r4

\* "add mount instruction for the first items not covered by the lis"
mount_after_lis(old_nodes, new_nodes, idx, last, r2) ==
    IF last < Len(new_nodes) - 1
    THEN insert_mounted_after(
             new_nodes[last + 1],
             mount_range(old_nodes, new_nodes, idx, last + 1, Len(new_nodes), FALSE,
                         [r |-> r2, n |-> 0]))
    ELSE r2

\* The mount loops, after the nodes of the sequence were diffed into r2.
mount_around_lis(old_nodes, new_nodes, idx, lis, r2) ==
    IF Len(lis) = 0 THEN Panic(r2, "lis_sequence.last(): unwrap")
    ELSE mount_before_lis(
             old_nodes, new_nodes, idx, lis[1],
             mount_gaps(old_nodes, new_nodes, idx, lis, Len(lis) - 1,
                        mount_after_lis(old_nodes, new_nodes, idx, lis[Len(lis)], r2)))

\* The shared-key path once lis_sequence is known.  Ghost: mid.
diff_around_lis(old_nodes, new_nodes, idx, lis, r1) ==
    mount_around_lis(
        old_nodes, new_nodes, idx, lis,
        diff_lis(old_nodes, new_nodes, idx, lis, 1,
                 [r1 EXCEPT !.mid = [idx |-> idx, lis |-> lis,
                                     first |-> new_nodes[1].addr]]))

\* "If none of the old keys are reused": r1 is the registry after the destroy of
\* old[1..] and the create of new.
replace_first_old(first_old, r1) == replace_inner(first_old, r1.nodes_to_place, take_created(r1))

\* diff_keyed_middle once new_index_to_old_index and shared_keys are known.
diff_keyed_middle_with(old_nodes, new_nodes, idx, shared, r) ==
    IF shared = {}
    THEN replace_first_old(old_nodes[1],
                           slice_create(new_nodes, slice_destroy(Tail(old_nodes), r)))
    ELSE diff_around_lis(old_nodes, new_nodes, idx, lis_sequence(idx),
                         remove_unshared(old_nodes, shared, 1, r))

diff_keyed_middle(old_nodes, new_nodes, r) ==
    IF r.panicked THEN r
    ELSE IF new_nodes[1].key = old_nodes[1].key
            \/ new_nodes[Len(new_nodes)].key = old_nodes[Len(old_nodes)].key
         THEN Panic(r, "diff_keyed_middle: debug_assert_ne")
    ELSE diff_keyed_middle_with(old_nodes, new_nodes,
                                new_index_to_old_index(old_nodes, new_nodes),
                                shared_keys(old_nodes, new_nodes), r)

\* diff_keyed_children on the two middle windows.
diff_keyed_windows(old_nodes, new_nodes, old_middle, new_middle, left_offset, right_offset, r) ==
    IF Len(old_middle) = 0 /\ Len(new_middle) = 0
    THEN Panic(r, "diff_keyed_children: debug_assert middle")
    ELSE IF Len(new_middle) = 0
    THEN slice_destroy(old_middle, r)
    ELSE IF Len(old_middle) = 0
    THEN IF left_offset = 0
         THEN create_and_insert_before(
                  new_middle, old_nodes[Len(old_nodes) - right_offset + 1], r)
         ELSE IF right_offset = 0
         THEN create_and_insert_after(new_middle, old_nodes[Len(old_nodes)], r)
         ELSE create_and_insert_after(new_middle, old_nodes[left_offset], r)
    ELSE diff_keyed_middle(old_middle, new_middle, r)

\* diff_keyed_children after diff_keyed_ends returned ends.
diff_keyed_children_from(old_nodes, new_nodes, ends) ==
    IF ~ends.some THEN ends.r
    ELSE IF ends.left_offset > Len(old_nodes) - ends.right_offset
            \/ ends.left_offset > Len(new_nodes) - ends.right_offset
         THEN Panic(ends.r, "diff_keyed_children: slice index")
    ELSE diff_keyed_windows(
             old_nodes, new_nodes,
             Slice(old_nodes, ends.left_offset, Len(old_nodes) - ends.right_offset),
             Slice(new_nodes, ends.left_offset, Len(new_nodes) - ends.right_offset),
             ends.left_offset, ends.right_offset, ends.r)

diff_keyed_children(old_nodes, new_nodes, r) ==
    IF r.panicked THEN r
    ELSE diff_keyed_children_from(old_nodes, new_nodes,
                                  diff_keyed_ends(old_nodes, new_nodes, r))

\* <&[VNode] as Diffable>::diff.  Two slices are pointer-equal when they start at
\* the same node and have the same length.
children_diff(self, other, r) ==
    IF r.panicked THEN r
    ELSE IF Len(self) = Len(other) /\ Len(self) > 0 /\ ptr_eq(self[1], other[1]) THEN r
    ELSE IF Len(other) = 0 /\ Len(self) = 0 THEN r
    ELSE IF Len(other) = 0 THEN create_and_append_children(self, r)
    ELSE IF Len(self) = 0 THEN slice_destroy(other, r)
    ELSE LET new_is_keyed == self[1].key # ""
             old_is_keyed == other[1].key # ""
         IN  IF (\E i \in 1..Len(self) : (self[i].key # "") # new_is_keyed)
                \/ (\E i \in 1..Len(other) : (other[i].key # "") # old_is_keyed)
             THEN Panic(r, "diff: debug_assert all siblings keyed or all non-keyed")
             ELSE IF new_is_keyed /\ old_is_keyed
             THEN diff_keyed_children(other, self, r)
             ELSE diff_non_keyed_children(other, self, r)

\* ------------------------------------------------------------ VComponent
\* The negation of the predicate's answer lost: re-render exactly when the props
\* are the same.
should_diff_negation_lost(other, stored_props, new_props, r) ==
    IF other.can_memoize
    THEN memoize(stored_props, new_props) \/ r.force_diff
    ELSE TRUE

should_diff(other, stored_props, new_props, r) ==
    IF other.can_memoize
    THEN ~memoize(stored_props, new_props) \/ r.force_diff
    ELSE TRUE

VComponent_diff(self, other, r) ==
    IF r.panicked THEN r
    ELSE IF other.scope = None
         THEN Panic(r, "existing component nodes should have a scope")
    ELSE IF ptr_eq(self, other) THEN r
    ELSE IF other.user_fc = self.user_fc
         THEN IF other.scope \notin DOMAIN r.scopes THEN Panic(r, "could not find scope")
              ELSE IF self.props = None THEN Panic(r, "new component props should exist")
              ELSE IF should_diff(other, r.scopes[other.scope].props, self.props, r)
                   THEN LET r1 == Log([r EXCEPT !.scopes[other.scope].props = self.props],
                                      "replace_props", self.addr, other.scope)
                            r2 == Emit(run_scope(other.scope, r1),
                                       Mut("MarkDirtyScope", other.scope, 0, ""))
                        IN  VNode_diff(r2.scopes[other.scope].fin,
                                       r2.scopes[other.scope].wip, r2)
                   ELSE r
         ELSE VComponent_create(self, VComponent_destroy(other, r))

\* ------------------------------------------------------------- VFragment
VFragment_diff(self, other, r) ==
    IF r.panicked THEN r
    ELSE IF ptr_eq(self, other) THEN r
    ELSE IF Len(other.children) = 1 /\ Len(self.children) = 1
         THEN VNode_diff(self.children[1], other.children[1], r)
    ELSE IF Len(other.children) = 0 \/ Len(self.children) = 0
         THEN Panic(r, "VFragment::diff: debug_assert non-empty")
    ELSE children_diff(self.children, other.children, r)

\* ----------------------------------------------------------------- VNode
VNode_diff(self, other, r) ==
    IF r.panicked THEN r
    ELSE LET r0 == Log(r, "diff", self.addr, other.addr)
         IN  IF self.kind = other.kind
             THEN CASE self.kind = "Text" -> VText_diff(self, other, r0)
                    [] self.kind = "Placeholder" -> VPlaceholder_diff(self, other, r0)
                    [] self.kind = "Element" -> VElement_diff(self, other, r0)
                    [] self.kind = "Component" -> VComponent_diff(self, other, r0)
                    [] self.kind = "Fragment" -> VFragment_diff(self, other, r0)
             ELSE VNode_create(self, VNode_destroy(other, r0))

\* ------------------------------------------------------------ the applier
\* The interpreter of the edits: a stack of nodes and the rendered sibling list.
\* after / before / replaceWith first take the moved nodes out of the document.
Without(seq, ids) == SelectSeq(seq, LAMBDA x : x \notin Range(ids))

IndexOf(seq, x) == CHOOSE i \in 1..Len(seq) : seq[i] = x

\* stack.splice(stack.length - n): the removed tail and what is left.
SpliceTail(stk, n) ==
    LET k == Min(n, Len(stk))
    IN  [els |-> SubSeq(stk, Len(stk) - k + 1, Len(stk)),
         rest |-> SubSeq(stk, 1, Len(stk) - k)]

InsertAt(seq, pos, els) ==
    SubSeq(seq, 1, pos) \o els \o SubSeq(seq, pos + 1, Len(seq))

\* Applies one edit to [dom, stack, ok]; ok turns FALSE when the edit addresses a
\* node that is not rendered (nodes[id] is undefined or detached).
ApplyOne(st, e) ==
    CASE e.op \in {"CreateTextNode", "CreateElement", "CreatePlaceholder", "PushRoot"} ->
            [st EXCEPT !.stack = Append(@, e.id)]
      [] e.op = "InsertAfter" ->
            LET sp == SpliceTail(st.stack, e.m)
                d == Without(st.dom, sp.els)
            IN  IF e.id \notin Range(st.dom) THEN [st EXCEPT !.ok = FALSE]
                ELSE IF e.id \in Range(sp.els) THEN [st EXCEPT !.stack = sp.rest]
                ELSE [st EXCEPT !.stack = sp.rest,
                                !.dom = InsertAt(d, IndexOf(d, e.id), sp.els)]
      [] e.op = "InsertBefore" ->
            LET sp == SpliceTail(st.stack, e.m)
                d == Without(st.dom, sp.els)
            IN  IF e.id \notin Range(st.dom) THEN [st EXCEPT !.ok = FALSE]
                ELSE IF e.id \in Range(sp.els) THEN [st EXCEPT !.stack = sp.rest]
                ELSE [st EXCEPT !.stack = sp.rest,
                                !.dom = InsertAt(d, IndexOf(d, e.id) - 1, sp.els)]
      [] e.op = "ReplaceWith" ->
            LET sp == SpliceTail(st.stack, e.m)
                d == Without(st.dom, sp.els)
            IN  IF e.id \notin Range(st.dom) THEN [st EXCEPT !.ok = FALSE]
                ELSE IF e.id \in Range(sp.els) THEN [st EXCEPT !.stack = sp.rest]
                ELSE [st EXCEPT !.stack = sp.rest,
                                !.dom = Without(InsertAt(d, IndexOf(d, e.id), sp.els),
                                                <<e.id>>)]
      [] e.op = "Remove" ->
            [st EXCEPT !.dom = Without(@, <<e.id>>)]
      [] e.op = "AppendChildren" ->
            LET sp == SpliceTail(st.stack, e.m)
            IN  [st EXCEPT !.stack = sp.rest, !.dom = Without(@, sp.els) \o sp.els]
      [] OTHER -> st

\* ------------------------------------------------ sibling-list specification
KeyNames == <<"A", "B", "C", "D", "E", "F", "G", "H">>

\* One key more than the longest list, so that a new list can bring keys that
\* old does not have even when old has MaxLen nodes.
Keys == {KeyNames[i] : i \in 1..(MaxLen + 1)}

ListKinds == {"Text", "Element"}

\* Diffing looks at keys only through equality, so the old list is taken to be
\* the first n keys in order and the new list ranges over every duplicate-free
\* key sequence.  An old node is materialised (its id is its position); a new
\* node either carries no id yet or one of its own (preassign).
OldList(kind, keys) ==
    [i \in 1..Len(keys) |-> Node(kind, keys[i], i, i, "a")]

NewList(kind, keys, n_old, preassign, changed) ==
    [j \in 1..Len(keys) |->
        Node(kind, keys[j], IF preassign THEN n_old + j ELSE None, 0 - j,
             IF changed THEN "b" ELSE "a")]

NoKeys(n) == [i \in 1..n |-> ""]

\* The parts of the state a specification does not exercise.
NotReceived == [called |-> FALSE, some |-> FALSE, value |-> 0, backlog |-> 0]

InitChanIdle ==
    /\ messages = <<>> /\ sent = <<>> /\ received = <<>> /\ senders = <<>>
    /\ last_recv = NotReceived

InitIdle == InitChanIdle /\ vd = <<>>

InitChildren ==
    /\ pc = "start"
    /\ \E kind \in ListKinds, preassign \in BOOLEAN, changed \in BOOLEAN,
          n_old \in 1..MaxLen :
          \E new_keys \in {s \in SeqsUpTo(Keys, MaxLen) : Len(s) > 0 /\ Injective(s)}
                          \cup {NoKeys(n) : n \in 1..MaxLen} :
             /\ old = OldList(kind, IF new_keys[1] = "" THEN NoKeys(n_old)
                                    ELSE SubSeq(KeyNames, 1, n_old))
             /\ new = NewList(kind, new_keys, n_old, preassign, changed)
             /\ reg = Registry(FALSE, <<>>, preassign, n_old + Len(new_keys) + 1)
             /\ dom = [i \in 1..n_old |-> i]
    /\ stack = <<>>
    /\ ip = 0
    /\ InitIdle

\* The slice diff, entered with the two sibling lists.  A panic unwinds the
\* render pass, so its edits never reach the applier.
DiffChildren ==
    /\ pc = "start"
    /\ reg' = children_diff(new, old, reg)
    /\ pc' = IF reg'.panicked THEN "panicked" ELSE "diffed"
    /\ UNCHANGED <<old, new, dom, stack, ip, chanVars, vd>>

\* The applier executes the next edit of the log.
ApplyEdit ==
    /\ pc = "diffed"
    /\ ip < Len(reg.edits)
    /\ LET st == ApplyOne([dom |-> dom, stack |-> stack, ok |-> TRUE], reg.edits[ip + 1])
       IN  /\ dom' = st.dom
           /\ stack' = st.stack
           /\ pc' = IF st.ok THEN "diffed" ELSE "apply_failed"
    /\ ip' = ip + 1
    /\ UNCHANGED <<old, new, reg, chanVars, vd>>

ApplyDone ==
    /\ pc = "diffed"
    /\ ip = Len(reg.edits)
    /\ pc' = "applied"
    /\ UNCHANGED <<old, new, reg, dom, stack, ip, chanVars, vd>>

NextChildren == DiffChildren \/ ApplyEdit \/ ApplyDone

SpecChildren == InitChildren /\ [][NextChildren]_vars

\* ------------------------------------------------ reading the final state
KeysOf(nodes) == [i \in 1..Len(nodes) |-> nodes[i].key]

IsKeyedCase == new[1].key # "" /\ old[1].key # ""

Finished == pc \in {"applied", "panicked", "apply_failed"}

Created == {e \in Range(reg.trace) : e.ev = "create"}
Destroyed == {e \in Range(reg.trace) : e.ev = "destroy"}
Diffed == {e \in Range(reg.trace) : e.ev = "diff"}

\* The key of the sibling the rendered node id shows: an old node's key, or the
\* key of the new node a create call made it for ("?" for any other id).
KeyOfId(id) ==
    IF \E i \in 1..Len(old) : old[i].id = id
    THEN old[CHOOSE i \in 1..Len(old) : old[i].id = id].key
    ELSE IF \E e \in Created : e.b = id
    THEN new[0 - (CHOOSE e \in Created : e.b = id).a].key
    ELSE "?"

RenderedKeys == [i \in 1..Len(dom) |-> KeyOfId(dom[i])]

EditsOf(ops) == SelectSeq(reg.edits, LAMBDA e : e.op \in ops)

InsertOps == {"InsertAfter", "InsertBefore", "AppendChildren", "ReplaceWith"}

\* ---------------------------------------------- claims on the sibling lists
CreateOps == {"CreateTextNode", "CreatePlaceholder", "CreateElement"}

\* C1: the mutations of the keyed diff, applied in emission order to the
\* rendered sequence of old, yield exactly the key sequence of new.
C1_KeyedDiffYieldsNewKeys ==
    (Finished /\ IsKeyedCase) => (pc = "applied" /\ RenderedKeys = KeysOf(new))

\* The length of a longest strictly increasing subsequence of s, by enumeration.
LIS_length(s) ==
    LET Increasing(S) == \A i, j \in S : i < j => s[i] < s[j]
        sizes == {Cardinality(S) : S \in {T \in SUBSET (1..Len(s)) : Increasing(T)}}
    IN  CHOOSE n \in sizes : \A k \in sizes : k <= n

IsPermutationCase ==
    /\ IsKeyedCase
    /\ Len(new) = Len(old)
    /\ Range(KeysOf(new)) = Range(KeysOf(old))

\* C3: when new is a permutation of old's keys, the keyed diff emits at most
\* n - LIS_length(new_index_to_old_index) move/insert mutations and no create
\* and no destroy of a node whose key is in both lists.
C3_PermutationMoveBound ==
    (pc # "start" /\ IsPermutationCase) =>
        /\ Len(EditsOf(InsertOps)) <= Len(old) - LIS_length(new_index_to_old_index(old, new))
        /\ Created = {} /\ Destroyed = {}
        /\ EditsOf(CreateOps \cup {"Remove"}) = <<>>

\* C4: the unkeyed diff of lists of lengths m and n performs exactly min(m, n)
\* positional diffs, creates exactly the new nodes past min(m, n) and destroys
\* exactly the old nodes past min(m, n).
C4_UnkeyedCounts ==
    (pc # "start" /\ ~IsKeyedCase) =>
        LET m == Len(old)
            n == Len(new)
        IN  /\ {<<e.a, e.b>> : e \in Diffed} = {<<new[i].addr, old[i].addr>> : i \in 1..Min(m, n)}
            /\ {e.a : e \in Created} = {new[i].addr : i \in (m + 1)..n}
            /\ {e.a : e \in Destroyed} = {old[i].addr : i \in (n + 1)..m}
            /\ Cardinality(Created) = Max(0, n - m)
            /\ Cardinality(Destroyed) = Max(0, m - n)

\* C8: old = [A,B,C,D] against new = [B,A,C,D] emits exactly one move (one
\* insert relocating A or B), leaves C and D where they are, and creates and
\* destroys nothing.
C8_SwapFirstTwo ==
    (Finished /\ KeysOf(old) = <<"A", "B", "C", "D">> /\ KeysOf(new) = <<"B", "A", "C", "D">>) =>
        /\ pc = "applied"
        /\ Len(EditsOf(InsertOps)) = 1
        /\ EditsOf(InsertOps)[1].m = 1
        /\ Len(EditsOf({"PushRoot"})) = 1
        /\ EditsOf({"PushRoot"})[1].id \in {old[1].id, old[2].id}
        /\ EditsOf(CreateOps \cup {"Remove"}) = <<>>
        /\ Created = {} /\ Destroyed = {}
        /\ dom = <<old[2].id, old[1].id, old[3].id, old[4].id>>

\* C9: old = [A,B,C] against new = [A,C,D] destroys exactly B, creates exactly D
\* and inserts it after C's rendered element, and moves neither A nor C.
C9_RemoveAndAppend ==
    (Finished /\ KeysOf(old) = <<"A", "B", "C">> /\ KeysOf(new) = <<"A", "C", "D">>) =>
        /\ pc = "applied"
        /\ {e.a : e \in Destroyed} = {old[2].addr}
        /\ {e.a : e \in Created} = {new[3].addr}
        /\ Len(EditsOf(InsertOps)) = 1
        /\ EditsOf(InsertOps)[1].op = "InsertAfter"
        /\ EditsOf(InsertOps)[1].id = old[3].id
        /\ EditsOf(InsertOps)[1].m = 1
        /\ EditsOf({"PushRoot"}) = <<>>
        /\ Len(dom) = 3 /\ dom[1] = old[1].id /\ dom[2] = old[3].id

\* How many calls of one kind the trace holds for the node at an address.
Calls(ev, addr) ==
    Cardinality({i \in 1..Len(reg.trace) : reg.trace[i].ev = ev /\ reg.trace[i].a = addr})

\* The places of the trace that hold a call of one kind.
CallsAt(ev) == {i \in 1..Len(reg.trace) : reg.trace[i].ev = ev}

\* C29: unkeyed, old shorter than new: the positional diffs of the overlap
\* come first, the creation of the tail afterwards, and the tail is inserted
\* with one insert-after whose anchor is the last rendered element of old's
\* last node and whose count is the number of nodes created for the tail.
C29_TailAfterOverlap ==
    (pc # "start" /\ ~IsKeyedCase /\ Len(old) < Len(new)) =>
        /\ pc # "panicked"
        /\ \A i \in 1..Len(old) : Calls("diff", new[i].addr) = 1
        /\ \A j \in (Len(old) + 1)..Len(new) : Calls("create", new[j].addr) = 1
        /\ \A d \in CallsAt("diff"), c \in CallsAt("create") : d < c
        /\ Len(EditsOf(InsertOps)) = 1
        /\ EditsOf(InsertOps)[1].op = "InsertAfter"
        /\ EditsOf(InsertOps)[1].id = old[Len(old)].id
        /\ EditsOf(InsertOps)[1].m = Len(new) - Len(old)

\* One unkeyed text diffed against two, the new ones with ids of their own:
\* the tail was created before the overlap was diffed, and inserted with count 0.
C29_Witness ==
    /\ pc # "start" /\ pc # "panicked" /\ ~IsKeyedCase
    /\ Len(old) = 1 /\ Len(new) = 2
    /\ Calls("create", new[2].addr) = 1 /\ Calls("diff", new[1].addr) = 1
    /\ \E d \in CallsAt("diff"), c \in CallsAt("create") : c < d
    /\ Len(EditsOf(InsertOps)) = 1 /\ EditsOf(InsertOps)[1].m = 0

\* C30: the keyed diff destroys exactly the old nodes whose key is absent
\* from new and creates exactly the new nodes whose key is absent from old,
\* each once, on every path.
C30_KeyedCreatesAndDestroys ==
    (pc # "start" /\ IsKeyedCase) =>
        /\ pc # "panicked"
        /\ \A i \in 1..Len(old) :
              Calls("destroy", old[i].addr) =
                  IF old[i].key \in Range(KeysOf(new)) THEN 0 ELSE 1
        /\ \A j \in 1..Len(new) :
              Calls("create", new[j].addr) =
                  IF new[j].key \in Range(KeysOf(old)) THEN 0 ELSE 1

\* A middle with shared keys: one old key gone, one new key added, both done once.
C30_Witness ==
    /\ pc # "start" /\ pc # "panicked" /\ IsKeyedCase
    /\ \E i \in 1..Len(old) : old[i].key \notin Range(KeysOf(new))
                                /\ Calls("destroy", old[i].addr) = 1
    /\ \E j \in 1..Len(new) : new[j].key \notin Range(KeysOf(old))
                                /\ Calls("create", new[j].addr) = 1
    /\ Range(KeysOf(old)) \cap Range(KeysOf(new)) # {}

\* The keyed middle diff was entered with at least one shared key.
MiddleReached == reg.mid.first # None

NonSentinel(idx) == SelectSeq(idx, LAMBDA x : x # U32_MAX)

\* The zero-based indices of the new-middle nodes that were diffed and not
\* pushed for a move (no PushRoot carries their id).
KeptInPlace ==
    {k \in 0..(Len(reg.mid.idx) - 1) :
        LET n == new[k - reg.mid.first]
        IN  /\ Calls("diff", n.addr) > 0
            /\ \A e \in 1..Len(reg.edits) :
                  ~(reg.edits[e].op = "PushRoot" /\ reg.edits[e].id = id_get(n, reg))}

\* C31: in the keyed middle diff the nodes kept in place are the members of
\* lis_sequence, which holds no sentinel entry, is strictly increasing in
\* position and in old index, and is as long as a longest strictly increasing
\* subsequence of the non-sentinel entries of new_index_to_old_index.
C31_KeptInPlaceIsLis ==
    (pc # "start" /\ MiddleReached) =>
        LET idx == reg.mid.idx
            lis == reg.mid.lis
        IN  /\ \A t \in 1..Len(lis) : idx[lis[t] + 1] # U32_MAX
            /\ \A t, u \in 1..Len(lis) :
                  t < u => (lis[t] < lis[u] /\ idx[lis[t] + 1] < idx[lis[u] + 1])
            /\ Len(lis) = LIS_length(NonSentinel(idx))
            /\ pc # "panicked" => KeptInPlace = Range(lis)

\* A pass that completed with a sentinel in the middle, two nodes kept in place
\* and a shared node that had to move.
C31_Witness ==
    /\ pc # "start" /\ pc # "panicked" /\ MiddleReached
    /\ U32_MAX \in Range(reg.mid.idx)
    /\ Len(reg.mid.lis) >= 2
    /\ Len(NonSentinel(reg.mid.idx)) > Len(reg.mid.lis)
    /\ KeptInPlace = Range(reg.mid.lis)

\* C35: when the keyed middle windows share a key, lis_sequence is non-empty
\* after the pop of the trailing sentinel, and its first() and last() never
\* fail.
C35_LisNonEmpty ==
    (pc # "start" /\ MiddleReached) =>
        /\ Len(reg.mid.lis) >= 1
        /\ reg.panic_at # "lis_sequence.last(): unwrap"

\* A middle whose longest increasing subsequence ended in a sentinel that was
\* popped, leaving one shared node.
C35_Witness ==
    /\ pc # "start" /\ MiddleReached
    /\ Len(reg.mid.lis) = 1
    /\ \E i \in 1..Len(reg.mid.idx) :
          /\ reg.mid.idx[i] = U32_MAX
          /\ i - 1 > reg.mid.lis[1]
    /\ LIS_length(reg.mid.idx) = 2

\* C36: for keyed lists with distinct keys, the offsets diff_keyed_ends returns
\* satisfy left_offset + right_offset <= min(|old|, |new|), and the old and the
\* new middle window are not both empty.
C36_EndsDoNotOverlap ==
    (pc # "start" /\ IsKeyedCase /\ reg.ends.some) =>
        LET left_offset == reg.ends.left_offset
            right_offset == reg.ends.right_offset
        IN  /\ left_offset + right_offset <= Min(Len(old), Len(new))
            /\ ~(Len(old) - left_offset - right_offset = 0
                  /\ Len(new) - left_offset - right_offset = 0)
            /\ reg.panic_at \notin {"diff_keyed_children: slice index",
                                    "diff_keyed_children: debug_assert middle"}

\* Offsets returned with a matched prefix and a matched suffix that leave an
\* empty old middle against a new node between them.
C36_Witness ==
    /\ pc # "start" /\ IsKeyedCase /\ reg.ends.some
    /\ reg.ends.left_offset >= 1 /\ reg.ends.right_offset >= 1
    /\ reg.ends.left_offset + reg.ends.right_offset = Len(old)
    /\ Len(new) > Len(old)

PlaceOps == {"InsertAfter", "InsertBefore", "AppendChildren"}

SameKeySequence == IsKeyedCase /\ KeysOf(old) = KeysOf(new)

\* C37: every insert-after, insert-before and append-children of the
\* sibling-list diff carries a count of at least 1, and the diff of two keyed
\* lists with the same key sequence emits none of them.
C37_InsertCountsPositive ==
    pc # "start" =>
        /\ \A i \in 1..Len(reg.edits) : reg.edits[i].op \in PlaceOps => reg.edits[i].m >= 1
        /\ (SameKeySequence /\ pc # "panicked") => EditsOf(PlaceOps) = <<>>

\* A completed diff of two keyed lists of two nodes with the same keys, every
\* pair diffed.
C37_Witness ==
    /\ pc # "start" /\ pc # "panicked" /\ SameKeySequence
    /\ Len(old) >= 2
    /\ \A j \in 1..Len(new) : Calls("diff", new[j].addr) = 1

\* C40: after create_and_insert_after, create_and_insert_before and
\* create_and_append_children the pending nodes_to_place counter is 0, and the
\* count each of them carries is the number of nodes created for it.
C40_PendingCounterCleared ==
    pc # "start" =>
        /\ reg.nodes_to_place = 0
        /\ \A i \in CallsAt("place") : reg.trace[i].b = reg.trace[i].a

\* A completed diff in which two nodes were created for one placement.
C40_Witness ==
    /\ pc # "start" /\ pc # "panicked"
    /\ \E i \in CallsAt("place") : reg.trace[i].a = 2
    /\ Len(EditsOf(PlaceOps)) = 1

\* --------------------------------------------------- single-node specification
\* VNode::diff entered with one previous node and one newly rendered node.  The
\* previous node is materialised (id 1, address 1); the new node lives at
\* address 2 and is either the previous node itself (same address), or a node
\* with an empty id cell, or a node with an id of its own (preassign).
AttrValues == {"x", "y"}
Tags == {"div", "span"}
Events == {"click", "input"}
PropValues == {1, 2}
Texts == {"a", "b"}

AttrLists ==
    {<<>>}
    \cup {<<Attr("class", v, vol)>> : v \in AttrValues, vol \in BOOLEAN}
    \cup {<<Attr("class", v, FALSE), Attr("style", w, FALSE)>> : v, w \in AttrValues}

ListenerLists == {<<>>} \cup {<<Listener(e, None)>> : e \in Events}

TextNodes(id, addr) == {Node("Text", "", id, addr, t) : t \in Texts}

PlaceholderNodes(id, addr) == {Node("Placeholder", "", id, addr, "")}

ElementNodes(id, addr) ==
    {[Node("Element", "", id, addr, "") EXCEPT !.tag = tag, !.attributes = al,
                                                !.listeners = ll] :
        tag \in Tags, al \in AttrLists, ll \in ListenerLists}

\* Elements with one text child and no attribute.
ParentNodes(id, addr, child_id, child_addr) ==
    {[Node("Element", "", id, addr, "") EXCEPT
          !.tag = tag, !.children = <<Node("Text", "", child_id, child_addr, t)>>] :
        tag \in Tags, t \in Texts}

ComponentNodes(addr, scope) ==
    {[Node("Component", "", None, addr, "") EXCEPT !.user_fc = fc, !.can_memoize = cm,
                                                   !.props = p, !.scope = scope] :
        fc \in {"App", "Other"}, cm \in BOOLEAN, p \in PropValues}

\* Fragments of text children, all keyed or all unkeyed.
FragmentNodes(addr, first_id, first_addr, step) ==
    {[Node("Fragment", "", None, addr, "") EXCEPT !.children =
          [i \in 1..Len(ks) |-> Node("Text", ks[i],
                                     IF first_id = None THEN None ELSE first_id + i - 1,
                                     first_addr + step * (i - 1), "a")]] :
        ks \in {<<"">>, <<"", "">>, <<"A">>, <<"A", "B">>, <<"B", "A">>}}

OldNodes ==
    TextNodes(1, 1) \cup PlaceholderNodes(1, 1) \cup ElementNodes(1, 1)
    \cup ParentNodes(1, 1, 3, 5)
    \cup ComponentNodes(1, 1) \cup FragmentNodes(1, 1, 3, 1)

NewNodes(preassign) ==
    LET id == IF preassign THEN 2 ELSE None
    IN  TextNodes(id, 2) \cup PlaceholderNodes(id, 2) \cup ElementNodes(id, 2)
        \cup ParentNodes(id, 2, IF preassign THEN 4 ELSE None, 6)
        \cup ComponentNodes(2, None)
        \cup FragmentNodes(2, IF preassign THEN 5 ELSE None, 0 - 3, 0 - 1)

\* The scope a mounted component node points at: it has rendered once, with the
\* stored props.
MountedScopes(stored) ==
    [sid \in {1} |-> NewScope(stored, Node("Text", "", None, 7, TextOf(stored)),
                              Node("Text", "", 7, 8, TextOf(stored)))]

InitNode ==
    /\ pc = "start"
    /\ \E preassign \in BOOLEAN, force \in BOOLEAN, stored \in PropValues :
          /\ old \in OldNodes
          /\ new \in NewNodes(preassign) \cup {old}
          /\ (old.kind # "Component" => ~force /\ stored = 1)
          /\ reg = Registry(force, MountedScopes(stored), preassign, 9)
    /\ dom = <<>> /\ stack = <<>> /\ ip = 0
    /\ InitIdle

DiffNode ==
    /\ pc = "start"
    /\ reg' = VNode_diff(new, old, reg)
    /\ pc' = IF reg'.panicked THEN "panicked" ELSE "diffed"
    /\ UNCHANGED <<old, new, dom, stack, ip, chanVars, vd>>

NextNode == DiffNode

SpecNode == InitNode /\ [][NextNode]_vars

\* ------------------------------------------------ claims on the single node
\* A node with its identity (id cells, address, scope link) erased.
RECURSIVE Shape(_)
Shape(n) ==
    [n EXCEPT !.id = None, !.addr = 0, !.scope = None,
              !.children = [i \in 1..Len(n.children) |-> Shape(n.children[i])]]

\* The text the mounted scope showed before this diff, which tells its stored
\* props: the render function shows the props as text.
MountedText == IF reg.runs = 0 THEN reg.scopes[1].fin.text ELSE reg.scopes[1].wip.text

\* new is a structurally identical copy of old (another object, same content).
IsCopy ==
    /\ ~ptr_eq(new, old)
    /\ Shape(new) = Shape(old)
    /\ new.kind = "Component" => TextOf(new.props) = MountedText

\* C2: diffing a created tree against a structurally identical copy of itself
\* emits zero mutations (and the diff completes).
C2_DiffOfCopyEmitsNothing ==
    (pc # "start" /\ IsCopy) => (pc = "diffed" /\ reg.edits = <<>>)

C2_Witness ==
    /\ pc = "diffed" /\ IsCopy /\ new.kind = "Fragment"
    /\ Len(new.children) = 2 /\ new.children[1].key = "A"
    /\ Len(reg.edits) = 1 /\ reg.edits[1].op = "InsertAfter" /\ reg.edits[1].m = 0

\* The case of C5: a component diffed against a mounted component with the same
\* function, whose memoization predicate is consulted and answers "equal",
\* without the forced-diff flag.
MemoCase ==
    /\ new.kind = "Component" /\ old.kind = "Component"
    /\ ~ptr_eq(new, old)
    /\ new.user_fc = old.user_fc
    /\ old.can_memoize
    /\ TextOf(new.props) = MountedText
    /\ ~reg.force_diff

\* C5: in the memoized case the render function is not invoked and no mutation,
\* mark-dirty included, is emitted for the subtree.
C5_MemoizedSkipsRender ==
    (pc # "start" /\ MemoCase) => (pc = "diffed" /\ reg.runs = 0 /\ reg.edits = <<>>)

C5_Witness == pc = "diffed" /\ MemoCase /\ reg.runs = 0

\* C7: a text node "b" diffed against another, old text node "a" emits exactly
\* one set-text, addressed to the old node's ElementId, carrying "b".
C7_SetTextOnOldId ==
    (pc # "start" /\ new.kind = "Text" /\ old.kind = "Text" /\ ~ptr_eq(new, old)
        /\ new.text = "b" /\ old.text = "a")
    => (pc = "diffed" /\ reg.edits = <<Mut("SetText", old.id, 0, "b")>>)

C7_Witness ==
    /\ pc = "diffed" /\ new.kind = "Text" /\ old.kind = "Text" /\ ~ptr_eq(new, old)
    /\ new.text = "b" /\ old.text = "a"
    /\ reg.edits = <<Mut("SetText", new.id, 0, "a")>>

\* Two distinct Element nodes with the same tag and namespace were diffed.
SameElementCase ==
    /\ pc # "start"
    /\ new.kind = "Element" /\ old.kind = "Element" /\ ~ptr_eq(new, old)
    /\ new.tag = old.tag /\ new.namespace = old.namespace

\* The edits with one of the ops, each reduced to its op, name and value.
NamedEdits(ops) ==
    LET e == EditsOf(ops)
    IN  [i \in 1..Len(e) |-> <<e[i].op, e[i].name, e[i].value>>]

\* The positions of 1..n that satisfy Test, in order.
Positions(n, Test(_)) == SelectSeq([i \in 1..n |-> i], Test)

\* C25: with attribute lists of equal length a set-attribute is emitted for
\* exactly the positions whose value changed or whose new attribute is
\* volatile; with different lengths a remove-attribute for every old attribute
\* is followed by a set-attribute for every new one; the listeners follow the
\* same policy (remove and add where the event changed, or all of them).
C25_AttributePolicy ==
    SameElementCase =>
        LET oa == old.attributes
            na == new.attributes
            ol == old.listeners
            nl == new.listeners
            ca == Positions(Len(na), LAMBDA i : oa[i].value # na[i].value \/ na[i].is_volatile)
            cl == Positions(Len(nl), LAMBDA i : ol[i].event # nl[i].event)
        IN  /\ pc = "diffed"
            /\ NamedEdits({"SetAttribute", "RemoveAttribute"}) =
                  IF Len(oa) = Len(na)
                  THEN [k \in 1..Len(ca) |-> <<"SetAttribute", na[ca[k]].name, na[ca[k]].value>>]
                  ELSE [i \in 1..Len(oa) |-> <<"RemoveAttribute", oa[i].name, "">>]
                       \o [i \in 1..Len(na) |-> <<"SetAttribute", na[i].name, na[i].value>>]
            /\ NamedEdits({"RemoveEventListener", "NewEventListener"}) =
                  IF Len(ol) = Len(nl)
                  THEN [k \in 1..(2 * Len(cl)) |->
                           IF k % 2 = 1
                           THEN <<"RemoveEventListener", ol[cl[(k + 1) \div 2]].event, "">>
                           ELSE <<"NewEventListener", nl[cl[k \div 2]].event, "">>]
                  ELSE [i \in 1..Len(ol) |-> <<"RemoveEventListener", ol[i].event, "">>]
                       \o [i \in 1..Len(nl) |-> <<"NewEventListener", nl[i].event, "">>]

\* Two attributes of which only the second changed: one set-attribute.
C25_Witness ==
    /\ SameElementCase /\ pc = "diffed"
    /\ Len(old.attributes) = 2 /\ Len(new.attributes) = 2
    /\ old.attributes[1].value = new.attributes[1].value
    /\ old.attributes[2].value # new.attributes[2].value
    /\ Len(EditsOf({"SetAttribute"})) = 1

\* C26: after the attributes and listeners the diff goes into the children:
\* a child text whose content changed gets its set-text.
C26_ChildrenDiffed ==
    (SameElementCase /\ Len(old.children) = 1 /\ Len(new.children) = 1
        /\ old.children[1].text # new.children[1].text)
    => /\ pc = "diffed"
       /\ \E e \in Diffed : e.a = new.children[1].addr /\ e.b = old.children[1].addr
       /\ Len(EditsOf({"SetText"})) = 1

\* Two elements whose only difference is the text of their child, diffed
\* without a panic.
C26_Witness ==
    /\ SameElementCase /\ pc = "diffed"
    /\ Len(old.children) = 1 /\ Len(new.children) = 1
    /\ old.children[1].text # new.children[1].text
    /\ reg.edits = <<>>

\* C27: two Elements that differ in tag or namespace: the old one is destroyed
\* and the new one created in its place; the old element is never left
\* rendered unchanged.
C27_TagChangeReplaces ==
    (pc # "start" /\ new.kind = "Element" /\ old.kind = "Element" /\ ~ptr_eq(new, old)
        /\ (new.tag # old.tag \/ new.namespace # old.namespace))
    => /\ pc = "diffed"
       /\ \E e \in Destroyed : e.a = old.addr
       /\ \E e \in Created : e.a = new.addr
       /\ reg.edits # <<>>

\* A div diffed against a span without a panic and without one mutation.
C27_Witness ==
    /\ pc = "diffed" /\ new.kind = "Element" /\ old.kind = "Element"
    /\ new.tag # old.tag /\ reg.edits = <<>>

\* A component diffed against a mounted component with the same function.
SameComponentCase ==
    /\ pc # "start"
    /\ new.kind = "Component" /\ old.kind = "Component" /\ ~ptr_eq(new, old)
    /\ new.user_fc = old.user_fc

\* The new node's props were put into the scope: scope.props.replace(new_props).
PropsSwappedIn ==
    \E e \in Range(reg.trace) : e.ev = "replace_props" /\ e.a = new.addr /\ e.b = old.scope

\* C28: whether or not memoization skips the render, the incoming props are
\* put into the scope; when it does not skip, they are there before the
\* render function runs, which therefore shows them.
C28_PropsSwappedIn ==
    SameComponentCase =>
        /\ PropsSwappedIn
        /\ reg.scopes[old.scope].props = new.props
        /\ ~MemoCase => reg.runs = 1 /\ reg.scopes[old.scope].fin.text = TextOf(new.props)

\* The render was not skipped and ran on the new props, which differ from
\* the stored ones.
C28_Witness ==
    /\ SameComponentCase /\ ~MemoCase /\ PropsSwappedIn
    /\ reg.runs = 1 /\ TextOf(new.props) # reg.scopes[old.scope].wip.text
    /\ reg.scopes[old.scope].fin.text = TextOf(new.props)

\* ------------------------------------------------------ channel specification
\* Receiver<T> owns the boxed Messages<T>; a Sender is a raw pointer to it and is
\* Copy.  One Receiver lives at BoxAddr; T is 1..MaxMsg.
BoxAddr == 1

MsgValues == 1..MaxMsg

\* Messages::push: messages.push_back(message)
Messages_push(q, message) == Append(q, message)

\* The queue served from the wrong end: messages.pop_back().
Messages_pop_back(q) ==
    IF q = <<>> THEN [some |-> FALSE, value |-> 0, q |-> q]
    ELSE [some |-> TRUE, value |-> q[Len(q)], q |-> SubSeq(q, 1, Len(q) - 1)]

\* Messages::pop: messages.pop_front()
Messages_pop(q) ==
    IF q = <<>> THEN [some |-> FALSE, value |-> 0, q |-> q]
    ELSE [some |-> TRUE, value |-> Head(q), q |-> Tail(q)]

InitDiffIdle ==
    /\ pc = "idle" /\ old = <<>> /\ new = <<>> /\ dom = <<>> /\ stack = <<>> /\ ip = 0
    /\ reg = Registry(FALSE, <<>>, FALSE, 1)

\* Receiver::default()
InitChan == InitDiffIdle /\ InitChanIdle /\ vd = <<>>

\* Receiver::sender: a new handle pointing at the Receiver's box.
Receiver_sender ==
    /\ Len(senders) < MaxSenders
    /\ senders' = Append(senders, BoxAddr)
    /\ UNCHANGED <<diffVars, messages, sent, received, last_recv, vd>>

\* Sender::clone / Copy: a second handle with the same pointer.
Sender_clone ==
    /\ Len(senders) < MaxSenders
    /\ \E s \in 1..Len(senders) : senders' = Append(senders, senders[s])
    /\ UNCHANGED <<diffVars, messages, sent, received, last_recv, vd>>

\* Sender::send through any handle: (*self.messages).push(message)
Sender_send ==
    /\ Len(sent) < MaxSend
    /\ \E s \in 1..Len(senders), message \in MsgValues :
          /\ senders[s] = BoxAddr
          /\ messages' = Messages_push(messages, message)
          /\ sent' = Append(sent, message)
    /\ UNCHANGED <<diffVars, received, last_recv, senders, vd>>

\* Receiver::receive: self.messages.pop()
Receiver_receive ==
    /\ LET res == Messages_pop(messages)
       IN  /\ messages' = res.q
           /\ received' = IF res.some THEN Append(received, res.value) ELSE received
           /\ last_recv' = [called |-> TRUE, some |-> res.some, value |-> res.value,
                            backlog |-> Len(sent) - Len(received)]
    /\ UNCHANGED <<diffVars, sent, senders, vd>>

NextChan == Receiver_sender \/ Sender_clone \/ Sender_send \/ Receiver_receive

SpecChan == InitChan /\ [][NextChan]_vars

\* C10: receive returns the messages in the order they were sent, each exactly
\* once (what was received, followed by what is still queued, is what was
\* sent), and it returns None exactly when every sent message had already been
\* received.
C10_ChannelFifo ==
    /\ received \o messages = sent
    /\ last_recv.called =>
          /\ ~last_recv.some <=> last_recv.backlog = 0
          /\ last_recv.some => last_recv.value = sent[Len(sent) - Len(messages)]

C10_Witness ==
    /\ Len(senders) = 2
    /\ Len(received) >= 2 /\ received[1] # received[2]
    /\ messages = <<>>
    /\ last_recv.called /\ ~last_recv.some

\* ------------------------------------------------------------ create.rs
\* The VirtualDom as create sees it (the variable vd): templates, the element
\* counter, scopes (ScopeId(0) is scope 1 here) with their suspense context,
\* scope_stack, collected_leaves, and the Mutations being written (edits and
\* template_mutations).  Ghosts: every edit carries a serial number, seen_main
\* holds the serials of all edits that have been in the main log, slots logs
\* the id cells written.
TemplateNode(kind, id, children) ==
    [kind |-> kind, id |-> id, children |-> children, tag |-> "div", value |-> "",
     attrs |-> <<>>, inner_opt |-> FALSE]

Template(id, roots, node_paths, attr_paths) ==
    [id |-> id, roots |-> roots, node_paths |-> node_paths, attr_paths |-> attr_paths]

TemplateInstance(template, dynamic_nodes, dynamic_attrs) ==
    [template |-> template, dynamic_nodes |-> dynamic_nodes, dynamic_attrs |-> dynamic_attrs]

\* DynamicNode.  For a Component, ret is what its render returns ("Async",
\* "None" or "Some"), rendered holds the returned template instance (at most
\* one), and boundary says whether its scope provides a SuspenseContext.
DynamicNode(kind, value, ret, rendered, boundary, nodes) ==
    [kind |-> kind, value |-> value, ret |-> ret, rendered |-> rendered,
     boundary |-> boundary, nodes |-> nodes]

DynamicAttr(name, kind) == [name |-> name, kind |-> kind]

\* A mutation of the create pass.
CMut(op, id, m, path, name, value) ==
    [op |-> op, id |-> id, m |-> m, path |-> path, name |-> name, value |-> value,
     serial |-> 0, pos |-> <<>>]

ScopeState(parent, boundary) ==
    [parent |-> parent, boundary |-> boundary, placeholder |-> None,
     waiting_on |-> {}, bedits |-> <<>>, bplaceholder |-> None]

VPanic(st, where) ==
    IF st.panicked THEN st ELSE [st EXCEPT !.panicked = TRUE, !.panic_at = where]

\* The mutations that address a node by its path below the root on the stack.
PathOps == {"AssignId", "HydrateText", "ReplacePlaceholder"}

\* mutations.<method>(..) on the main log's edits.  Ghost: a mutation that
\* carries a path is stamped with the position it addresses, that is the
\* template instance and root being created (st.cur) and the path.
EmitEdit(st, m) ==
    IF st.panicked THEN st
    ELSE [st EXCEPT !.edits = Append(@, [m EXCEPT !.serial = st.serial,
                                                  !.pos = IF m.op \in PathOps
                                                          THEN <<st.cur[1], st.cur[2], m.path>>
                                                          ELSE <<>>]),
                    !.seen_main = @ \cup {st.serial},
                    !.serial = @ + 1]

\* mutations.template_mutations.<method>(..)
EmitTemplate(st, m) ==
    IF st.panicked THEN st
    ELSE [st EXCEPT !.template_mutations = Append(@, [m EXCEPT !.serial = st.serial]),
                    !.serial = @ + 1]

SetSlot(st, what, idx, id) ==
    IF st.panicked THEN st
    ELSE [st EXCEPT !.slots = Append(@, [what |-> what, idx |-> idx, id |-> id])]

\* A counter that hands out its value without moving on.
next_element_repeats(st) ==
    [st |-> st, id |-> st.next_element]

\* self.next_element(template): the next ElementId of the counter.
next_element(st) ==
    [st |-> [st EXCEPT !.next_element = @ + 1], id |-> st.next_element]

\* new_scope taking the key of an unmounted scope when there is one, as a slab does.
new_scope_reuses_key(st, node) ==
    LET parent == IF st.scope_stack = <<>> THEN None ELSE st.scope_stack[Len(st.scope_stack)]
    IN  IF st.retired = {}
        THEN [st |-> [st EXCEPT !.scopes = Append(@, ScopeState(parent, node.boundary))],
              id |-> Len(st.scopes) + 1]
        ELSE LET k == CHOOSE k \in st.retired : \A j \in st.retired : k <= j
             IN  [st |-> [st EXCEPT !.scopes[k] = ScopeState(parent, node.boundary),
                                    !.retired = @ \ {k}],
                  id |-> k]

\* self.new_scope(props): a scope whose parent is the scope being created.
new_scope(st, node) ==
    [st |-> [st EXCEPT !.scopes = Append(@,
                ScopeState(IF st.scope_stack = <<>> THEN None
                           ELSE st.scope_stack[Len(st.scope_stack)], node.boundary))],
     id |-> Len(st.scopes) + 1]

\* self.run_scope(scope): the render result; an unresolved asynchronous result
\* registers a suspended leaf in collected_leaves.
run_scope_create(st, node) ==
    IF node.ret = "Async"
    THEN [st EXCEPT !.collected_leaves = Append(@, st.next_leaf), !.next_leaf = @ + 1]
    ELSE st

\* ScopeState::has_context::<SuspenseContext>: the scope's own boundary.
has_context(st, scope) == IF st.scopes[scope].boundary THEN scope ELSE None

\* ScopeState::consume_context::<SuspenseContext>: the scope's own boundary, or
\* the one of its nearest ancestor that has one.
RECURSIVE consume_context(_, _)
consume_context(st, scope) ==
    IF scope = None THEN None
    ELSE IF st.scopes[scope].boundary THEN scope
    ELSE consume_context(st, st.scopes[scope].parent)

\* MutationStore::take kept as a copy: the log is not emptied.
take_keeps_log(st) == [st |-> st, taken |-> st.edits]

\* MutationStore::take on the main log: std::mem::take(self)
take(st) == [st |-> [st EXCEPT !.edits = <<>>], taken |-> st.edits]

\* boundary.waiting_on.extend(self.collected_leaves.drain(..)), with the
\* placeholder of the boundary set if it has none.
register_leaves(st, boundary, new_id) ==
    [st EXCEPT !.scopes[boundary].bplaceholder = IF @ = None THEN new_id ELSE @,
               !.scopes[boundary].waiting_on = @ \cup Range(st.collected_leaves),
               !.collected_leaves = <<>>]

\* create_static_node: the static structure of a template, written to
\* template_mutations.
RECURSIVE create_static_node(_, _)
RECURSIVE create_static_children(_, _, _)
create_static_children(st, children, i) ==
    IF i > Len(children) THEN st
    ELSE create_static_children(create_static_node(st, children[i]), children, i + 1)

RECURSIVE set_static_attrs(_, _, _, _)
set_static_attrs(st, attrs, i, id) ==
    IF i > Len(attrs) THEN st
    ELSE set_static_attrs(
             IF attrs[i].static
             THEN EmitTemplate(st, CMut("SetAttribute", id, 0, <<>>, attrs[i].name, attrs[i].value))
             ELSE st, attrs, i + 1, id)

create_static_node(st, node) ==
    IF st.panicked THEN st
    ELSE CASE node.kind = "Dynamic" ->
                LET a == next_element(st)
                IN  EmitTemplate(a.st, CMut("CreatePlaceholder", a.id, 0, <<>>, "", ""))
           [] node.kind = "Text" ->
                EmitTemplate(st, CMut("CreateStaticText", None, 0, <<>>, "", node.value))
           [] node.kind = "DynamicText" ->
                EmitTemplate(st, CMut("CreateStaticText", None, 0, <<>>, "", "placeholder"))
           [] node.kind = "Element" ->
                LET a == next_element(st)
                    s1 == EmitTemplate(a.st, CMut("CreateElement", a.id, 0, <<>>, node.tag, ""))
                    s2 == set_static_attrs(s1, node.attrs, 1, a.id)
                IN  IF Len(node.children) = 0 /\ node.inner_opt THEN s2
                    ELSE EmitTemplate(create_static_children(s2, node.children, 1),
                                      CMut("AppendChildren", None, Len(node.children), <<>>, "", ""))

\* The first block of create without its last statement: the template is
\* written out and saved but never inserted into self.templates.
register_template_forgets(st, t) ==
    IF t.id \in st.templates THEN st
    ELSE LET s1 == create_static_children(st, t.roots, 1)
         IN  EmitTemplate(s1, CMut("SaveTemplate", None, Len(t.roots), <<>>, t.id, ""))

\* The first block of create: a template not yet in self.templates is written
\* out, saved and inserted.
register_template(st, t) ==
    IF t.id \in st.templates THEN st
    ELSE LET s1 == create_static_children(st, t.roots, 1)
             s2 == EmitTemplate(s1, CMut("SaveTemplate", None, Len(t.roots), <<>>, t.id, ""))
         IN  IF s2.panicked THEN s2 ELSE [s2 EXCEPT !.templates = @ \cup {t.id}]

\* while let Some((idx, p)) = dynamic_nodes.next_if(|(_, p)| p[0] == root_idx):
\* ni is the iterator's position; start and end are one-based, 0 for None.
RECURSIVE scan_dynamic_nodes(_, _, _, _, _)
scan_dynamic_nodes(node_paths, root_idx, ni, start, end) ==
    IF ni > Len(node_paths) \/ node_paths[ni][1] # root_idx
    THEN [ni |-> ni, start |-> start, end |-> end]
    ELSE IF Len(node_paths[ni]) = 1
    THEN scan_dynamic_nodes(node_paths, root_idx, ni + 1, start, end)
    ELSE scan_dynamic_nodes(node_paths, root_idx, ni + 1, IF start = 0 THEN ni ELSE start, ni)

\* The inner loop over the dynamic attributes that sit on one element.
RECURSIVE set_dynamic_attrs(_, _, _, _, _, _)
set_dynamic_attrs(st, vn, path, attr_id, ai, id) ==
    IF st.panicked THEN [st |-> st, ai |-> ai]
    ELSE IF attr_id > Len(vn.dynamic_attrs)
    THEN [st |-> VPanic(st, "create: dynamic_attrs.get(attr_id).unwrap()"), ai |-> ai]
    ELSE LET attribute == vn.dynamic_attrs[attr_id]
             cur_scope == st.scope_stack[Len(st.scope_stack)]
             s0 == SetSlot(st, "mounted_element", attr_id, id)
             s1 == CASE attribute.kind = "Text" ->
                          EmitEdit(s0, CMut("SetAttribute", id, 0, <<>>, attribute.name, "v"))
                     [] attribute.kind = "Bool" ->
                          EmitEdit(s0, CMut("SetBoolAttribute", id, 0, <<>>, attribute.name, "true"))
                     [] attribute.kind = "Listener" ->
                          EmitEdit(s0, CMut("NewEventListener", id, cur_scope, <<>>, attribute.name, ""))
                     [] OTHER -> VPanic(s0, "create: todo!() attribute value")
         IN  IF ai <= Len(vn.template.attr_paths) /\ vn.template.attr_paths[ai] = path
             THEN set_dynamic_attrs(s1, vn, path, ai, ai + 1, id)
             ELSE [st |-> s1, ai |-> ai]

\* while let Some((attr_id, path)) = dynamic_attrs.next_if(|(_, p)| p[0] == root_idx)
RECURSIVE create_dynamic_attrs(_, _, _, _)
create_dynamic_attrs(st, vn, root_idx, ai) ==
    IF st.panicked \/ ai > Len(vn.template.attr_paths)
       \/ vn.template.attr_paths[ai][1] # root_idx
    THEN [st |-> st, ai |-> ai]
    ELSE LET path == vn.template.attr_paths[ai]
             a == next_element(st)
             s1 == EmitEdit(a.st, CMut("AssignId", a.id, 0, Tail(path), "", ""))
             r == set_dynamic_attrs(s1, vn, path, ai, ai + 1, a.id)
         IN  create_dynamic_attrs(r.st, vn, root_idx, r.ai)

RECURSIVE create(_, _)
RECURSIVE create_dynamic_node(_, _, _, _)

\* The Fragment arm: nodes.iter().fold(0, |acc, child| acc + self.create(child))
RECURSIVE create_fragment(_, _, _, _)
create_fragment(st, nodes, i, acc) ==
    IF i > Len(nodes) THEN [st |-> st, n |-> acc]
    ELSE LET c == create(st, nodes[i])
         IN  create_fragment(c.st, nodes, i + 1, acc + c.n)

\* self.scope_stack.push(scope).  Ghosts: reentered notes a scope pushed while
\* it is on the stack already, deepest the longest stack seen.
push_scope(st, scope) ==
    [st EXCEPT !.scope_stack = Append(@, scope),
               !.reentered = @ \/ scope \in Range(st.scope_stack),
               !.deepest = Max(@, Len(st.scope_stack) + 1)]

\* self.scope_stack.pop() after a create that did not panic; c is what the
\* create returned.
pop_scope(c) ==
    [st |-> IF c.st.panicked THEN c.st
            ELSE [c.st EXCEPT !.scope_stack = SubSeq(@, 1, Len(@) - 1)],
     n |-> c.n]

\* The rendered template created under the enclosing scope, pushed once more,
\* instead of under the component's own scope.
create_in_scope_enclosing(st, scope, rendered) ==
    pop_scope(create(push_scope(st, st.scope_stack[Len(st.scope_stack)]), rendered))

\* self.scope_stack.push(scope); self.create(mutations, template); pop()
create_in_scope(st, scope, rendered) ==
    pop_scope(create(push_scope(st, scope), rendered))

\* boundary_mut.mutations.edits.append(split_off); waiting_on.extend(..);
\* created = 0, after the create of the boundary's template returned c.  Ghost:
\* splits notes, for the boundary, the serials of the mutations taken from the
\* main log and the serials from..to-1 given out while its subtree was created.
connect_to_boundary(c, split_off, from, boundary, id) ==
    IF c.st.panicked THEN [st |-> c.st, n |-> 0]
    ELSE [st |-> register_leaves(
                    [c.st EXCEPT !.scopes[boundary].bedits = @ \o split_off,
                                 !.splits = Append(@,
                                     [boundary |-> boundary,
                                      taken |-> [i \in 1..Len(split_off) |-> split_off[i].serial],
                                      from |-> from, to |-> c.st.serial])],
                    boundary, id),
          n |-> 0]

\* The Component arm of create_dynamic_node, after new_scope and run_scope.
create_component(st, vn, node, idx, scope) ==
    CASE node.ret = "None" ->
            [st |-> VPanic(st, "create_dynamic_node: todo!() Sync(None)"), n |-> 0]
      [] node.ret = "Async" ->
            LET a == next_element(st)
                s1 == SetSlot(a.st, "placeholder", scope, a.id)
                s2 == [s1 EXCEPT !.scopes[scope].placeholder = a.id]
                s3 == EmitEdit(s2, CMut("AssignId", a.id, 0,
                                        Tail(vn.template.node_paths[idx]), "", ""))
                boundary == consume_context(s3, scope)
            IN  IF boundary = None
                THEN [st |-> VPanic(s3, "create_dynamic_node: consume_context().unwrap()"),
                      n |-> 0]
                ELSE [st |-> register_leaves(s3, boundary, a.id), n |-> 0]
      [] OTHER ->
            LET rendered == node.rendered[1]
            IN  IF st.collected_leaves # <<>> /\ has_context(st, scope) # None
                THEN \* node_paths is read from the rendered template, which
                     \* shadows the parameter in this arm
                     IF idx > Len(rendered.template.node_paths)
                     THEN [st |-> VPanic(st, "create_dynamic_node: node_paths[idx] out of bounds"),
                           n |-> 0]
                     ELSE LET boundary == has_context(st, scope)
                              a == next_element(st)
                              s1 == SetSlot(a.st, "placeholder", scope, a.id)
                              s2 == [s1 EXCEPT !.scopes[scope].placeholder = a.id]
                              s3 == EmitEdit(s2, CMut("AssignId", a.id, 0,
                                          Tail(rendered.template.node_paths[idx]), "", ""))
                              t == take(s3)
                              c == create_in_scope(t.st, scope, rendered)
                          IN  connect_to_boundary(c, t.taken, t.st.serial, boundary, a.id)
                ELSE create_in_scope(st, scope, rendered)

\* Ghost: suspended lists the asynchronous renders met; r is what the
\* Component arm returned.
note_suspended(r, node, scope, leaf, path) ==
    IF node.ret = "Async"
    THEN [st |-> [r.st EXCEPT !.suspended = Append(@,
                     [scope |-> scope, leaf |-> leaf, path |-> path,
                      n |-> r.n, failed |-> r.st.panicked])],
          n |-> r.n]
    ELSE r

create_dynamic_node(st, vn, node, idx) ==
    IF st.panicked THEN [st |-> st, n |-> 0]
    ELSE CASE node.kind = "Text" ->
                LET a == next_element(st)
                    s1 == SetSlot(a.st, "text", idx, a.id)
                IN  [st |-> EmitEdit(s1, CMut("HydrateText", a.id, 0,
                                              Tail(vn.template.node_paths[idx]), "", node.value)),
                     n |-> 0]
           [] node.kind = "Component" ->
                LET sc == new_scope(st, node)
                    s1 == SetSlot(sc.st, "scope", idx, sc.id)
                    s2 == run_scope_create(s1, node)
                IN  note_suspended(create_component(s2, vn, node, idx, sc.id), node,
                                   sc.id, s1.next_leaf, Tail(vn.template.node_paths[idx]))
           [] node.kind = "Fragment" -> create_fragment(st, node.nodes, 1, 0)
           [] node.kind = "Placeholder" ->
                LET a == next_element(st)
                    s1 == SetSlot(a.st, "placeholder_slot", idx, a.id)
                IN  [st |-> EmitEdit(s1, CMut("AssignId", a.id, 0,
                                              Tail(vn.template.node_paths[idx]), "", "")),
                     n |-> 0]

\* if m > 0 { mutations.replace_placeholder(m, &node_paths[idx][1..]) }; c is
\* what create_dynamic_node returned.
replace_created(c, vn, idx) ==
    IF c.n > 0
    THEN EmitEdit(c.st, CMut("ReplacePlaceholder", None, c.n,
                             Tail(vn.template.node_paths[idx]), "", ""))
    ELSE c.st

\* for idx in start..=end { m = create_dynamic_node(..); if m > 0 { replace_placeholder } }
RECURSIVE create_dynamic_nodes(_, _, _, _)
create_dynamic_nodes(st, vn, idx, end) ==
    IF st.panicked \/ idx > end THEN st
    ELSE create_dynamic_nodes(
             replace_created(create_dynamic_node(st, vn, vn.dynamic_nodes[idx], idx), vn, idx),
             vn, idx + 1, end)

\* The match on one root: what it leaves on the stack.  A dynamic root names its
\* dynamic node by its zero-based index.
create_root(st, vn, root_idx) ==
    LET root == vn.template.roots[root_idx + 1]
    IN  IF root.kind \in {"Element", "Text"}
        THEN [st |-> EmitEdit(st, CMut("LoadTemplate", None, root_idx, <<>>, vn.template.id, "")),
              n |-> 1]
        ELSE LET node == vn.dynamic_nodes[root.id + 1]
             IN  CASE node.kind \in {"Fragment", "Component"} ->
                        create_dynamic_node(st, vn, node, root.id + 1)
                   [] node.kind = "Text" ->
                        LET a == next_element(st)
                            s1 == SetSlot(a.st, "text", root.id + 1, a.id)
                        IN  \* create_text pushes Mutation::SetText
                            [st |-> EmitEdit(s1, CMut("SetText", a.id, 0, <<>>, "", node.value)),
                             n |-> 1]
                   [] node.kind = "Placeholder" ->
                        LET a == next_element(st)
                            s1 == SetSlot(a.st, "placeholder_slot", root.id + 1, a.id)
                        IN  [st |-> EmitEdit(s1, CMut("CreatePlaceholder", a.id, 0, <<>>, "", "")),
                             n |-> 1]

\* The loop over the roots; ai and ni are the positions of the two peekable
\* iterators, on_stack the running sum.
RECURSIVE create_roots(_, _, _, _, _, _)
create_roots(st, vn, root_idx, ai, ni, on_stack) ==
    IF st.panicked \/ root_idx >= Len(vn.template.roots) THEN [st |-> st, n |-> on_stack]
    ELSE LET r == create_root([st EXCEPT !.cur[2] = root_idx], vn, root_idx)
             at == create_dynamic_attrs(r.st, vn, root_idx, ai)
             sc == scan_dynamic_nodes(vn.template.node_paths, root_idx, ni, 0, 0)
             s1 == IF sc.start # 0 /\ sc.end # 0
                   THEN create_dynamic_nodes(at.st, vn, sc.start, sc.end)
                   ELSE at.st
         IN  create_roots(s1, vn, root_idx + 1, at.ai, sc.ni, on_stack + r.n)

\* Ghost: when the create of a template instance returns c, the instance being
\* created is again the caller's.
leave_instance(c, cur) ==
    [st |-> IF c.st.panicked THEN c.st ELSE [c.st EXCEPT !.cur = cur], n |-> c.n]

\* Ghost: created lists the create calls, each with the template's id, whether
\* the registry knew it, and how many template mutations the call wrote.
create(st, vn) ==
    IF st.panicked THEN [st |-> st, n |-> 0]
    ELSE LET s0 == register_template(st, vn.template)
             s1 == IF s0.panicked THEN s0
                   ELSE [s0 EXCEPT !.created = Append(@,
                            [id |-> vn.template.id,
                             known |-> vn.template.id \in st.templates,
                             written |-> Len(s0.template_mutations)
                                           - Len(st.template_mutations)])]
         IN  IF s1.scope_stack = <<>>
             THEN [st |-> VPanic(s1, "create: scope_stack.last().unwrap()"), n |-> 0]
             ELSE leave_instance(create_roots([s1 EXCEPT !.cur = <<Len(s1.created), 0>>],
                                              vn, 0, 1, 1, 0),
                                 st.cur)

\* VirtualDom::create_scope
create_scope(st, scope, vn) ==
    pop_scope(create(push_scope(st, scope), vn))

\* ------------------------------------------------ create / suspense specification
\* Templates: a static element; an element with a dynamic text; an element with
\* one dynamic component; the root template, an element with a dynamic
\* attribute and two dynamic children; and a template whose only root is a
\* dynamic component.
StaticElement(children) == TemplateNode("Element", 0, children)

LeafTemplate == Template("leaf", <<StaticElement(<<>>)>>, <<>>, <<>>)

TextTemplate ==
    Template("text", <<StaticElement(<<TemplateNode("DynamicText", 0, <<>>)>>)>>,
             <<<<0, 0>>>>, <<>>)

WrapTemplate ==
    Template("wrap", <<StaticElement(<<TemplateNode("Dynamic", 0, <<>>)>>)>>,
             <<<<0, 0>>>>, <<>>)

AppTemplate ==
    Template("app",
             <<StaticElement(<<TemplateNode("Dynamic", 0, <<>>), TemplateNode("Dynamic", 1, <<>>)>>)>>,
             <<<<0, 0>>, <<0, 1>>>>, <<<<0>>>>)

DynRootTemplate == Template("dynroot", <<TemplateNode("Dynamic", 0, <<>>)>>, <<<<0>>>>, <<>>)

DynText(value) == DynamicNode("Text", value, "", <<>>, FALSE, <<>>)

DynComponent(ret, rendered, boundary) ==
    DynamicNode("Component", "", ret, rendered, boundary, <<>>)

LeafInstance == TemplateInstance(LeafTemplate, <<>>, <<>>)
TextInstance == TemplateInstance(TextTemplate, <<DynText("hi")>>, <<>>)
WrapInstance(c) == TemplateInstance(WrapTemplate, <<c>>, <<>>)
AppInstance(x, y) == TemplateInstance(AppTemplate, <<x, y>>, <<DynamicAttr("class", "Text")>>)
DynRootInstance(c) == TemplateInstance(DynRootTemplate, <<c>>, <<>>)

\* The components nested at most d deep, and what they can render.
RECURSIVE Components(_)
Rendered(d) ==
    {LeafInstance, TextInstance}
    \cup (IF d = 0 THEN {}
          ELSE {WrapInstance(c) : c \in Components(d - 1)}
               \cup {DynRootInstance(c) : c \in Components(d - 1)})

Components(d) ==
    {DynComponent("Async", <<>>, b) : b \in BOOLEAN}
    \cup {DynComponent("None", <<>>, FALSE)}
    \cup {DynComponent("Some", <<r>>, b) : r \in Rendered(d), b \in BOOLEAN}

RootInstances ==
    {AppInstance(x, y) : x \in Components(MaxDepth), y \in Components(0) \cup {DynText("hi")}}
    \cup {DynRootInstance(c) : c \in Components(0) \cup {DynText("hi")}}

\* The VirtualDom before the root scope is created.  The root scope may provide
\* a suspense context; a leaf suspended by an earlier diff pass (which runs
\* scopes and never drains collected_leaves) may still be collected.
InitSuspense ==
    /\ InitDiffIdle /\ InitChanIdle
    /\ \E root \in RootInstances, root_boundary \in BOOLEAN, leftover \in {<<>>, <<1>>} :
          vd = [pc |-> "start", root |-> root, templates |-> {}, next_element |-> 1,
                scopes |-> <<ScopeState(None, root_boundary)>>, scope_stack |-> <<>>,
                collected_leaves |-> leftover, next_leaf |-> 2,
                edits |-> <<>>, template_mutations |-> <<>>, serial |-> 1,
                seen_main |-> {}, slots |-> <<>>, panicked |-> FALSE, panic_at |-> "",
                on_stack |-> 0, resolved |-> {}, reentered |-> FALSE, deepest |-> 0,
                created |-> <<>>, suspended |-> <<>>, cur |-> <<0, 0>>,
                splits |-> <<>>]

\* create_scope(ScopeId(0), mutations, root)
CreateScope ==
    /\ vd.pc = "start"
    /\ LET c == create_scope(vd, 1, vd.root)
       IN  vd' = [c.st EXCEPT !.pc = IF c.st.panicked THEN "panicked" ELSE "created",
                              !.on_stack = c.n]
    /\ UNCHANGED <<diffVars, chanVars>>

\* Leaf resolution: the leaf leaves its boundary's waiting set; the resolved
\* subtree is written to the boundary's buffer in place of its placeholder;
\* when nothing is waited on any more the buffer is appended to the main log.
resolve_leaf(st, boundary, leaf) ==
    LET b == st.scopes[boundary]
        replace == [CMut("ReplaceWith", b.bplaceholder, 1, <<>>, "", "") EXCEPT
                        !.serial = st.serial]
        buffer == Append(b.bedits, replace)
        waiting == b.waiting_on \ {leaf}
        s1 == [st EXCEPT !.serial = @ + 1, !.resolved = @ \cup {leaf},
                         !.scopes[boundary].waiting_on = waiting]
    IN  IF waiting = {}
        THEN [s1 EXCEPT !.edits = @ \o buffer,
                        !.seen_main = @ \cup {buffer[i].serial : i \in 1..Len(buffer)},
                        !.scopes[boundary].bedits = <<>>]
        ELSE [s1 EXCEPT !.scopes[boundary].bedits = buffer]

ResolveLeaf ==
    /\ vd.pc = "created"
    /\ \E boundary \in 1..Len(vd.scopes) :
          \E leaf \in vd.scopes[boundary].waiting_on :
             vd' = resolve_leaf(vd, boundary, leaf)
    /\ UNCHANGED <<diffVars, chanVars>>

NextSuspense == CreateScope \/ ResolveLeaf

SpecSuspense == InitSuspense /\ [][NextSuspense]_vars

Serials(edits) == {edits[i].serial : i \in 1..Len(edits)}

DynTextRootCase ==
    /\ vd.root.template.id = "dynroot"
    /\ vd.root.dynamic_nodes[1].kind = "Text"

\* C34: for a template root that is a bare dynamic text, create takes a fresh
\* ElementId, emits a create-text-node mutation with that id and the text
\* value, emits no set-text, and counts one created node.
C34_DynamicTextRootCreated ==
    (vd.pc = "created" /\ DynTextRootCase) =>
        /\ \E i \in 1..Len(vd.edits) :
              /\ vd.edits[i].op = "CreateTextNode"
              /\ vd.edits[i].id = vd.next_element - 1
              /\ vd.edits[i].value = vd.root.dynamic_nodes[1].value
        /\ \A i \in 1..Len(vd.edits) : vd.edits[i].op # "SetText"
        /\ vd.on_stack = 1

\* The create pass of a bare dynamic text root ended with one node counted and
\* one mutation carrying the fresh id and the text.
C34_Witness ==
    /\ vd.pc = "created" /\ DynTextRootCase
    /\ vd.on_stack = 1
    /\ Len(vd.edits) = 1
    /\ vd.edits[1].id = vd.next_element - 1 /\ vd.edits[1].value = "hi"

SerialsOf(edits) == [i \in 1..Len(edits) |-> edits[i].serial]

Immediate(id) == [tag |-> "Immediate", id |-> id]
TaskNotified(id) == [tag |-> "TaskNotified", id |-> id]
SuspenseNotified(id) == [tag |-> "SuspenseNotified", id |-> id]

\* self.tasks.sender.unbounded_send(msg)
unbounded_send(st, msg) == [st EXCEPT !.rx = Append(@, msg)]

\* needs_update_any notifying the calling scope instead of the scope named.
needs_update_any_self(st, self, id) == unbounded_send(st, Immediate(self))

\* ScopeState::needs_update_any, called on the scope self
needs_update_any(st, self, id) == unbounded_send(st, Immediate(id))

\* UpdateScope::send on the handle schedule_update_non_sync returned for scope:
\* Sender::send on the copy channel
UpdateScope_send(q, scope) == Messages_push(q, Immediate(scope))

\* SignalRt::subscribe
SignalRt_subscribe(st, subscriber) == [st EXCEPT !.subscribers = Append(@, subscriber)]

\* SignalRt::set: (self.update_any)(*subscriber) for every entry of the
\* subscriber list; update_any is the closure of schedule_update_any.
RECURSIVE SignalRt_set(_, _)
SignalRt_set(st, i) ==
    IF i > Len(st.subscribers) THEN st
    ELSE SignalRt_set(unbounded_send(st, Immediate(st.subscribers[i])), i + 1)

\* SuspenseLeaf::wake_by_ref: notified.set(true); tx.unbounded_send(SuspenseNotified(id))
SuspenseLeaf_wake_by_ref(st, id) == unbounded_send(st, SuspenseNotified(id))

\* The first vacant key of a slab, or the key after its last one.
vacant_key(slab) ==
    IF \E k \in 1..Len(slab) : slab[k] = 0
    THEN CHOOSE k \in 1..Len(slab) : slab[k] = 0 /\ \A j \in 1..(k - 1) : slab[j] # 0
    ELSE Len(slab) + 1

slab_insert(slab, k, v) == IF k > Len(slab) THEN Append(slab, v) ELSE [slab EXCEPT ![k] = v]

\* Scheduler::spawn: the future is stored in the task slab.
Scheduler_spawn(st) ==
    [st EXCEPT !.tasks = slab_insert(@, vacant_key(@), st.next_serial),
               !.next_serial = @ + 1]

\* Scheduler::remove: the task leaves the slab and its future is dropped.
Scheduler_remove(st, id) ==
    IF id \in 1..Len(st.tasks) /\ st.tasks[id] # 0
    THEN [st EXCEPT !.tasks[id] = 0]
    ELSE st

\* remove_future that leaves the task in the scheduler's table.
remove_future_keeps(st, id) == st

\* ScopeState::remove_future
remove_future(st, id) == Scheduler_remove(st, id)

\* A waker of a spawned task: tx.unbounded_send(TaskNotified(id))
LocalTask_wake(st, id) == unbounded_send(st, TaskNotified(id))

\* A component suspends: its future is stored in the leaf slab.
Scheduler_suspend(st) ==
    [st EXCEPT !.leaves = slab_insert(@, vacant_key(@), st.next_serial),
               !.next_serial = @ + 1]

LiveScopes(st) == (1..Len(st.scopes)) \ st.retired

LiveKeys(slab) == {k \in 1..Len(slab) : slab[k] # 0}

Zeros(n) == [i \in 1..n |-> 0]

NoPass == [requested |-> <<>>, rendered |-> <<>>, stale |-> 0, handled |-> 0,
           from_copy |-> 0, before |-> <<>>, polled |-> {}]

\* The scheduler handles one message.  Immediate marks the scope dirty; a task
\* or leaf notification polls the future stored under the identifier (ready
\* holds the futures that complete when polled, which leave their slab); a
\* notification whose identifier is not in the tables is ignored.
handle_message(st, msg, ready) ==
    CASE msg.tag = "Immediate" ->
            IF msg.id \in LiveScopes(st)
            THEN [st EXCEPT !.dirty = @ \cup {msg.id}, !.last.handled = @ + 1]
            ELSE [st EXCEPT !.last.stale = @ + 1]
      [] msg.tag = "TaskNotified" ->
            IF msg.id \in LiveKeys(st.tasks)
            THEN LET serial == st.tasks[msg.id]
                 IN  [st EXCEPT !.last.polled = @ \cup {serial},
                                !.last.handled = @ + 1,
                                !.polled_removed = @ \/ serial \in st.removed,
                                !.tasks[msg.id] = IF serial \in ready THEN 0 ELSE @]
            ELSE [st EXCEPT !.last.stale = @ + 1]
      [] msg.tag = "SuspenseNotified" ->
            IF msg.id \in LiveKeys(st.leaves)
            THEN LET serial == st.leaves[msg.id]
                 IN  [st EXCEPT !.last.polled = @ \cup {serial},
                                !.last.handled = @ + 1,
                                !.leaves[msg.id] = IF serial \in ready THEN 0 ELSE @]
            ELSE [st EXCEPT !.last.stale = @ + 1]

\* The futures channel is drained in the order the messages were sent.
RECURSIVE drain_rx(_, _)
drain_rx(st, ready) ==
    IF st.rx = <<>> THEN st
    ELSE drain_rx(handle_message([st EXCEPT !.rx = Tail(@)], Head(st.rx), ready), ready)

\* The copy channel is drained with Receiver::receive until it returns None.
RECURSIVE drain_copy(_, _, _)
drain_copy(st, q, ready) ==
    LET res == Messages_pop(q)
    IN  IF ~res.some THEN st
        ELSE drain_copy(handle_message([st EXCEPT !.last.from_copy = @ + 1],
                                       res.value, ready), res.q, ready)

\* Every dirty scope is re-rendered, once.
render_dirty(st) ==
    [st EXCEPT !.last.rendered = [s \in 1..Len(st.scopes) |->
                                     IF s \in st.dirty THEN @[s] + 1 ELSE @[s]],
               !.dirty = {}]

\* One pass of the scheduler: drain both channels, then render what is dirty.
process_messages(st, q, ready) ==
    LET n == Len(st.scopes)
        s0 == [st EXCEPT !.last = [requested |-> st.requested, rendered |-> Zeros(n),
                                   stale |-> 0, handled |-> 0, from_copy |-> 0,
                                   before |-> <<st.tasks, st.leaves, st.dirty>>,
                                   polled |-> {}],
                         !.requested = Zeros(n)]
    IN  render_dirty(drain_copy(drain_rx(s0, ready), q, ready))

\* A scope is unmounted by its parent: it and the scopes below it are retired.
RECURSIVE Descendants(_, _)
Descendants(st, set) ==
    LET more == {s \in 1..Len(st.scopes) : st.scopes[s].parent \in set} \ set
    IN  IF more = {} THEN set ELSE Descendants(st, set \cup more)

drop_scope(st, s) == [st EXCEPT !.retired = @ \cup Descendants(st, {s})]

\* ------------------------------------------------- scheduler specification
\* A ScopeId handed out, with the scopes that had been destroyed by then.
Issued(id, retired) == [id |-> id, retired |-> retired]

\* The VirtualDom with its root scope and one child scope mounted and nothing
\* pending.
InitSched ==
    /\ InitDiffIdle /\ InitChanIdle
    /\ vd = [pc |-> "idle", scopes |-> <<ScopeState(None, TRUE), ScopeState(1, FALSE)>>,
             scope_stack |-> <<>>, retired |-> {}, issued |-> <<Issued(1, {}), Issued(2, {})>>, rx |-> <<>>,
             tasks |-> <<>>, leaves |-> <<>>, next_serial |-> 1, subscribers |-> <<>>,
             dirty |-> {}, removed |-> {}, requested |-> <<0, 0>>, last |-> NoPass,
             polled_removed |-> FALSE]

Queued == Len(vd.rx) + Len(messages)

Request(st, id) == [st EXCEPT !.requested[id] = @ + 1]

\* cx.needs_update() / cx.needs_update_any(id) called in a live scope
NeedsUpdate ==
    /\ vd.pc = "idle" /\ Queued < MaxQueue
    /\ \E self \in LiveScopes(vd), id \in LiveScopes(vd) :
          vd' = Request(needs_update_any(vd, self, id), id)
    /\ UNCHANGED <<diffVars, chanVars>>

\* cx.schedule_update_non_sync().send()
UpdateScopeSend ==
    /\ vd.pc = "idle" /\ Queued < MaxQueue
    /\ \E scope \in LiveScopes(vd) :
          /\ messages' = UpdateScope_send(messages, scope)
          /\ vd' = Request(vd, scope)
    /\ UNCHANGED <<diffVars, sent, received, last_recv, senders>>

\* A scope reads the signal: subscribe_to_current_scope
SignalSubscribe ==
    /\ vd.pc = "idle" /\ Len(vd.subscribers) < MaxSubs
    /\ \E subscriber \in LiveScopes(vd) : vd' = SignalRt_subscribe(vd, subscriber)
    /\ UNCHANGED <<diffVars, chanVars>>

RECURSIVE RequestAll(_, _, _)
RequestAll(st, ids, i) ==
    IF i > Len(ids) THEN st ELSE RequestAll(Request(st, ids[i]), ids, i + 1)

\* The signal is written: SignalRt::set
SignalSet ==
    /\ vd.pc = "idle" /\ vd.subscribers # <<>>
    /\ Queued + Len(vd.subscribers) <= MaxQueue
    /\ vd' = RequestAll(SignalRt_set(vd, 1), vd.subscribers, 1)
    /\ UNCHANGED <<diffVars, chanVars>>

\* cx.push_future(fut)
PushFuture ==
    /\ vd.pc = "idle" /\ vd.next_serial <= MaxTasks
    /\ vd' = Scheduler_spawn(vd)
    /\ UNCHANGED <<diffVars, chanVars>>

\* An async component suspends.
Suspend ==
    /\ vd.pc = "idle" /\ vd.next_serial <= MaxTasks
    /\ vd' = Scheduler_suspend(vd)
    /\ UNCHANGED <<diffVars, chanVars>>

TaskWake ==
    /\ vd.pc = "idle" /\ Queued < MaxQueue
    /\ \E id \in LiveKeys(vd.tasks) : vd' = LocalTask_wake(vd, id)
    /\ UNCHANGED <<diffVars, chanVars>>

LeafWake ==
    /\ vd.pc = "idle" /\ Queued < MaxQueue
    /\ \E id \in LiveKeys(vd.leaves) : vd' = SuspenseLeaf_wake_by_ref(vd, id)
    /\ UNCHANGED <<diffVars, chanVars>>

\* cx.remove_future(id)
RemoveFuture ==
    /\ vd.pc = "idle"
    /\ \E id \in LiveKeys(vd.tasks) :
          vd' = [remove_future(vd, id) EXCEPT !.removed = @ \cup {vd.tasks[id]}]
    /\ UNCHANGED <<diffVars, chanVars>>

\* A component is mounted below a live scope.
Mount ==
    /\ vd.pc = "idle" /\ Len(vd.issued) < MaxScopes
    /\ \E parent \in LiveScopes(vd) :
          LET sc == new_scope([vd EXCEPT !.scope_stack = <<parent>>], [boundary |-> FALSE])
          IN  vd' = [sc.st EXCEPT !.scope_stack = <<>>,
                                  !.issued = Append(@, Issued(sc.id, vd.retired)),
                                  !.requested = [i \in 1..Len(sc.st.scopes) |->
                                      IF i <= Len(vd.requested) /\ i # sc.id
                                      THEN vd.requested[i] ELSE 0]]
    /\ UNCHANGED <<diffVars, chanVars>>

\* A parent removes a child scope.
Unmount ==
    /\ vd.pc = "idle"
    /\ \E s \in LiveScopes(vd) \ {1} : vd' = drop_scope(vd, s)
    /\ UNCHANGED <<diffVars, chanVars>>

\* The scheduler wakes up with work waiting and runs one pass.
ProcessMessages ==
    /\ vd.pc = "idle" /\ Queued > 0
    /\ \E ready \in SUBSET ((Range(vd.tasks) \cup Range(vd.leaves)) \ {0}) :
          vd' = [process_messages(vd, messages, ready) EXCEPT !.pc = "processed"]
    /\ messages' = <<>>
    /\ UNCHANGED <<diffVars, sent, received, last_recv, senders>>

\* The pass is over; the scheduler waits for work again.
WaitForWork ==
    /\ vd.pc = "processed"
    /\ vd' = [vd EXCEPT !.pc = "idle", !.last = NoPass]
    /\ UNCHANGED <<diffVars, chanVars>>

NextSched ==
    \/ NeedsUpdate \/ UpdateScopeSend \/ SignalSubscribe \/ SignalSet
    \/ PushFuture \/ Suspend \/ TaskWake \/ LeafWake \/ RemoveFuture
    \/ ProcessMessages \/ WaitForWork

SpecSched == InitSched /\ [][NextSched]_vars

\* Scopes mounted and unmounted, with nothing else going on.
NextScopes == Mount \/ Unmount

SpecScopes == InitSched /\ [][NextScopes]_vars

\* Every mutation written so far to the main log or to a boundary's buffer.
AllEdits ==
    {vd.edits[i] : i \in 1..Len(vd.edits)}
    \cup UNION {Range(vd.scopes[b].bedits) : b \in 1..Len(vd.scopes)}

StaticRoots(t) == {i \in 1..Len(t.roots) : t.roots[i].kind \in {"Element", "Text"}}

TemplateOf(id) ==
    CHOOSE t \in {LeafTemplate, TextTemplate, WrapTemplate, AppTemplate, DynRootTemplate} :
        t.id = id

\* C14: the first create of a template id finds it unregistered and writes its
\* static structure, ending with one save-template; every later create of the
\* id finds it registered and writes no template mutation, so each id is saved
\* once; and each create loads every static root of its template once.
C14_TemplateRegisteredOnce ==
    vd.pc # "start" =>
        /\ \A j \in 1..Len(vd.created) :
              LET first == \A i \in 1..(j - 1) : vd.created[i].id # vd.created[j].id
              IN  /\ vd.created[j].known <=> ~first
                  /\ first => vd.created[j].written >= 2
                  /\ ~first => vd.created[j].written = 0
        /\ \A id \in {vd.created[j].id : j \in 1..Len(vd.created)} :
              /\ id \in vd.templates
              /\ Cardinality({i \in 1..Len(vd.template_mutations) :
                                 /\ vd.template_mutations[i].op = "SaveTemplate"
                                 /\ vd.template_mutations[i].name = id}) = 1
              /\ vd.pc # "panicked" =>
                    Cardinality({m \in AllEdits : m.op = "LoadTemplate" /\ m.name = id})
                      = Cardinality({j \in 1..Len(vd.created) : vd.created[j].id = id})
                          * Cardinality(StaticRoots(TemplateOf(id)))

\* One template created twice in a pass.
C14_Witness ==
    /\ vd.pc = "created"
    /\ \E i, j \in 1..Len(vd.created) :
          /\ i < j
          /\ vd.created[i].id = vd.created[j].id
          /\ ~vd.created[i].known /\ vd.created[j].known

IdGiving ==
    {m \in AllEdits \cup Range(vd.template_mutations) :
        m.op \in {"CreateElement", "CreatePlaceholder", "AssignId", "HydrateText", "SetText"}}

MutationStore_append(self, other) == self \o other

\* impl MutationStore for Vec<Mutation>: len
MutationStore_len(self) == Len(self)

\* The mutations the logs of the log specification are made of.
LogMutations ==
    {CMut("LoadTemplate", None, 0, <<>>, "app", ""),
     CMut("AssignId", 1, 0, <<0>>, "", ""),
     CMut("SetText", 2, 0, <<>>, "", "hi")}

\* Two logs: edits, the one that is taken, and other, the one appended to;
\* before remembers both as they started.
InitLog ==
    /\ InitDiffIdle /\ InitChanIdle
    /\ \E l, m \in SeqsUpTo(LogMutations, MaxLog) :
          vd = [pc |-> "start", edits |-> l, other |-> m, taken |-> <<>>,
                before |-> [edits |-> l, other |-> m]]

\* let split_off = mutations.take()
LogTake ==
    /\ vd.pc = "start"
    /\ LET t == take(vd)
       IN  vd' = [t.st EXCEPT !.taken = t.taken, !.pc = "taken"]
    /\ UNCHANGED <<diffVars, chanVars>>

\* other.append(split_off)
LogAppend ==
    /\ vd.pc = "taken"
    /\ vd' = [vd EXCEPT !.other = MutationStore_append(@, vd.taken), !.pc = "appended"]
    /\ UNCHANGED <<diffVars, chanVars>>

NextLog == LogTake \/ LogAppend

SpecLog == InitLog /\ [][NextLog]_vars

\* C17: take returns the log's contents in order and leaves the log with len 0;
\* appending what was taken to another log leaves that log's own mutations in
\* front, followed by the taken ones in their order, and its len is the sum
\* of the two lens.
C17_TakeAndAppend ==
    LET l == vd.before.edits
        m == vd.before.other
    IN  /\ vd.pc \in {"taken", "appended"} =>
              /\ Len(vd.taken) = Len(l)
              /\ \A i \in 1..Len(l) : vd.taken[i] = l[i]
              /\ MutationStore_len(vd.edits) = 0
        /\ vd.pc = "appended" =>
              /\ MutationStore_len(vd.other) = Len(m) + Len(l)
              /\ \A i \in 1..Len(m) : vd.other[i] = m[i]
              /\ \A j \in 1..Len(l) : vd.other[Len(m) + j] = l[j]

\* Two non-empty logs with different contents, taken and appended.
C17_Witness ==
    /\ vd.pc = "appended"
    /\ Len(vd.before.edits) = 2 /\ vd.before.edits[1] # vd.before.edits[2]
    /\ Len(vd.before.other) >= 1 /\ vd.before.other[1] # vd.before.edits[1]

\* ------------------------------------------------------- copy store
\* The types and values inserted into the store.
StoreTypes == {"String", "u32"}
StoreValues == {1, 2}

\* Option<Box<dyn Any>>: none
NoData == [ty |-> "", v |-> 0]

\* Option<Ref<T>>
NoRef == [some |-> FALSE, v |-> 0]
SomeRef(v) == [some |-> TRUE, v |-> v]

\* CopyHandle::validate: the generations are compared only where
\* debug_assertions is on; the other build answers true.
validate(st, h) ==
    IF st.debug_assertions
    THEN st.locations[h.raw].generation = h.generation
    ELSE TRUE

\* CopyHandle::try_read: validate().then(|| filter_map(borrow(), |any|
\* any.as_ref()?.downcast_ref::<T>()).ok()).flatten()
try_read(st, h) ==
    IF ~validate(st, h) THEN NoRef
    ELSE LET any == st.locations[h.raw].data
         IN  IF any = NoData THEN NoRef
             ELSE IF any.ty # h.ty THEN NoRef
             ELSE SomeRef(any.v)

\* CopyHandle::read: try_read().unwrap()
read(st, h) ==
    LET r == try_read(st, h)
    IN  [panicked |-> ~r.some, v |-> r.v]

\* CopyHandle::try_write: as try_read, with borrow_mut and downcast_mut
try_write(st, h) ==
    IF ~validate(st, h) THEN NoRef
    ELSE LET any == st.locations[h.raw].data
         IN  IF any = NoData THEN NoRef
             ELSE IF any.ty # h.ty THEN NoRef
             ELSE SomeRef(any.v)

\* CopyHandle::write: try_write().unwrap()
write(st, h) ==
    LET r == try_write(st, h)
    IN  [panicked |-> ~r.some, v |-> r.v]

\* MemoryLocation::drop: take the data; with debug_assertions, a location that
\* held something moves to the next generation.
MemoryLocation_drop(st, l) ==
    LET old_data == st.locations[l].data
    IN  [st EXCEPT !.locations[l].data = NoData,
                   !.locations[l].generation =
                       IF st.debug_assertions /\ old_data # NoData
                       THEN @ + 1 ELSE @]

\* MemoryLocation::replace: store the value, assert the location was empty,
\* hand out a handle carrying the location's generation (a field of the
\* handle only with debug_assertions).
MemoryLocation_replace(st, l, ty, v) ==
    LET old_data == st.locations[l].data
    IN  [st |-> [st EXCEPT !.locations[l].data = [ty |-> ty, v |-> v],
                           !.panicked = @ \/ old_data # NoData],
         key |-> [raw |-> l, ty |-> ty,
                  generation |-> IF st.debug_assertions
                                 THEN st.locations[l].generation ELSE 0]]

\* Store::recycle
Store_recycle(st, l) ==
    LET s1 == MemoryLocation_drop(st, l)
    IN  [s1 EXCEPT !.recycled = Append(@, l)]

\* Store::claim: the location recycled last, else a fresh one from the bump
Store_claim(st) ==
    IF st.recycled # <<>>
    THEN [st |-> [st EXCEPT !.recycled = SubSeq(@, 1, Len(@) - 1)],
          location |-> st.recycled[Len(st.recycled)]]
    ELSE [st |-> [st EXCEPT !.locations =
                      Append(@, [data |-> NoData, generation |-> 0])],
          location |-> Len(st.locations) + 1]

\* Store::owner
Store_owner(st) ==
    [st EXCEPT !.owners = Append(@, [owned |-> <<>>, state |-> "alive"])]

\* Owner::insert.  Ghost: the handle remembers its owner and its value.
Owner_insert(st, o, ty, v) ==
    LET c == Store_claim(st)
        r == MemoryLocation_replace(c.st, c.location, ty, v)
    IN  [r.st EXCEPT !.owners[o].owned = Append(@, c.location),
                     !.handles = Append(@, [raw |-> r.key.raw, ty |-> r.key.ty,
                                            generation |-> r.key.generation,
                                            owner |-> o, value |-> v])]

\* impl Drop for Owner: recycle every owned location, in order
RECURSIVE Owner_drop_from(_, _, _)
Owner_drop_from(st, o, i) ==
    IF i > Len(st.owners[o].owned) THEN st
    ELSE Owner_drop_from(Store_recycle(st, st.owners[o].owned[i]), o, i + 1)

Owner_drop(st, o) ==
    [Owner_drop_from(st, o, 1) EXCEPT !.owners[o].state = "dropped"]

\* Store::default, in either build
InitStore ==
    /\ InitDiffIdle /\ InitChanIdle
    /\ \E d \in BOOLEAN :
          vd = [debug_assertions |-> d, locations |-> <<>>, recycled |-> <<>>,
                owners |-> <<>>, handles |-> <<>>, panicked |-> FALSE,
                tried |-> 0, result |-> NoRef]

\* let owner = store.owner()
StoreOwner ==
    /\ Len(vd.owners) < MaxOwners
    /\ vd' = Store_owner(vd)
    /\ UNCHANGED <<diffVars, chanVars>>

\* let key = owner.insert(value)
OwnerInsert ==
    /\ Len(vd.handles) < MaxHandles
    /\ \E o \in 1..Len(vd.owners), ty \in StoreTypes, v \in StoreValues :
          /\ vd.owners[o].state = "alive"
          /\ vd' = Owner_insert(vd, o, ty, v)
    /\ UNCHANGED <<diffVars, chanVars>>

\* drop(owner)
OwnerDrop ==
    /\ \E o \in 1..Len(vd.owners) :
          /\ vd.owners[o].state = "alive"
          /\ vd' = Owner_drop(vd, o)
    /\ UNCHANGED <<diffVars, chanVars>>

\* std::mem::forget(owner)
OwnerForget ==
    /\ \E o \in 1..Len(vd.owners) :
          /\ vd.owners[o].state = "alive"
          /\ vd' = [vd EXCEPT !.owners[o].state = "leaked"]
    /\ UNCHANGED <<diffVars, chanVars>>

\* key.try_read()
TryRead ==
    /\ \E k \in 1..Len(vd.handles) :
          vd' = [vd EXCEPT !.tried = k, !.result = try_read(vd, vd.handles[k])]
    /\ UNCHANGED <<diffVars, chanVars>>

NextStore == StoreOwner \/ OwnerInsert \/ OwnerDrop \/ OwnerForget \/ TryRead

SpecStore == InitStore /\ [][NextStore]_vars

OwnerState(h) == vd.owners[h.owner].state

\* C19: after an Owner is dropped, try_read and try_write of every handle
\* inserted through it return none and read and write panic; while the owner
\* is alive or leaked, try_read returns the inserted value.
C19_DroppedFailsClosed ==
    \A k \in 1..Len(vd.handles) :
        LET h == vd.handles[k]
        IN  /\ OwnerState(h) = "dropped" =>
                  /\ try_read(vd, h) = NoRef
                  /\ try_write(vd, h) = NoRef
                  /\ read(vd, h).panicked
                  /\ write(vd, h).panicked
            /\ OwnerState(h) \in {"alive", "leaked"} =>
                  try_read(vd, h) = SomeRef(h.value)

\* A handle of a dropped owner was read and gave none, and a handle of a
\* leaked owner gives its value.
C19_Witness ==
    /\ vd.tried # 0
    /\ OwnerState(vd.handles[vd.tried]) = "dropped"
    /\ vd.result = NoRef
    /\ \E k \in 1..Len(vd.handles) :
          /\ OwnerState(vd.handles[k]) = "leaked"
          /\ try_read(vd, vd.handles[k]) = SomeRef(vd.handles[k].value)

\* C20: a handle whose owner has been dropped never validates again, also
\* after its location has been recycled and used by a later insert; every
\* handle whose owner is still alive validates and reads the value it was
\* inserted with.
C20_StaleNeverValidates ==
    \A k \in 1..Len(vd.handles) :
        LET h == vd.handles[k]
        IN  /\ OwnerState(h) = "dropped" => ~validate(vd, h)
            /\ OwnerState(h) = "alive" =>
                  /\ validate(vd, h)
                  /\ read(vd, h) = [panicked |-> FALSE, v |-> h.value]

\* With debug_assertions: the location of a dropped owner's handle was used
\* again by a later insert of a live owner; the old handle does not validate
\* and the new one does.
C20_Witness ==
    /\ vd.debug_assertions
    /\ \E j, k \in 1..Len(vd.handles) :
          /\ j < k
          /\ vd.handles[j].raw = vd.handles[k].raw
          /\ OwnerState(vd.handles[j]) = "dropped"
          /\ OwnerState(vd.handles[k]) = "alive"
          /\ ~validate(vd, vd.handles[j])
          /\ validate(vd, vd.handles[k])

\* ------------------------------------------------------- shared contexts
\* The value types provided as contexts, and their values; NoContext is a
\* type's missing entry in shared_contexts.
ContextTypes == {"Theme", "Route"}
ContextValues == {1, 2}
NoContext == 0

\* ScopeState::provide_context::<T>: shared_contexts.insert(TypeId::of::<T>(), value)
provide_context(scopes, scope, ty, value) ==
    [scopes EXCEPT ![scope].shared_contexts[ty] = value]

\* ScopeState::consume_context::<T>: the scope's own entry, else the entry of
\* the nearest ancestor that has one, else None.
RECURSIVE consume_context_of(_, _, _)
consume_context_of(scopes, scope, ty) ==
    IF scope = None THEN NoContext
    ELSE IF scopes[scope].shared_contexts[ty] # NoContext
    THEN scopes[scope].shared_contexts[ty]
    ELSE consume_context_of(scopes, scopes[scope].parent, ty)

\* Three scopes: the root, its child, and a scope under either of them.
\* Ghost: first remembers the first value each scope provided for each type.
InitContext ==
    /\ InitDiffIdle /\ InitChanIdle
    /\ \E p \in {1, 2} :
          vd = [scopes |-> [i \in 1..3 |->
                               [parent |-> IF i = 1 THEN None ELSE IF i = 2 THEN 1 ELSE p,
                                shared_contexts |-> [ty \in ContextTypes |-> NoContext]]],
                first |-> [i \in 1..3 |-> [ty \in ContextTypes |-> NoContext]],
                provides |-> 0,
                consumed |-> [scope |-> None, ty |-> "", value |-> NoContext]]

\* cx.provide_context(value)
ProvideContext ==
    /\ vd.provides < MaxProvides
    /\ \E scope \in 1..3, ty \in ContextTypes, value \in ContextValues :
          vd' = [vd EXCEPT !.scopes = provide_context(@, scope, ty, value),
                           !.first[scope][ty] = IF @ = NoContext THEN value ELSE @,
                           !.provides = @ + 1]
    /\ UNCHANGED <<diffVars, chanVars>>

\* cx.consume_context::<T>()
ConsumeContext ==
    /\ \E scope \in 1..3, ty \in ContextTypes :
          vd' = [vd EXCEPT !.consumed = [scope |-> scope, ty |-> ty,
                                         value |-> consume_context_of(vd.scopes, scope, ty)]]
    /\ UNCHANGED <<diffVars, chanVars>>

NextContext == ProvideContext \/ ConsumeContext

SpecContext == InitContext /\ [][NextContext]_vars

\* The nearest scope, from scope upwards, that has provided a value of type ty.
RECURSIVE Provider(_, _)
Provider(scope, ty) ==
    IF scope = None THEN None
    ELSE IF vd.first[scope][ty] # NoContext THEN scope
    ELSE Provider(vd.scopes[scope].parent, ty)

\* C22: a context value is written at most once per type per scope: what
\* consume_context returns for a scope and its descendants is the value the
\* providing scope provided first, whatever it provided later.
C22_ContextWrittenOnce ==
    \A scope \in 1..3, ty \in ContextTypes :
        Provider(scope, ty) # None =>
            consume_context_of(vd.scopes, scope, ty) = vd.first[Provider(scope, ty)][ty]

\* A descendant consumed the value its ancestor provided.
C22_Witness ==
    /\ vd.consumed.scope = 3
    /\ vd.first[3][vd.consumed.ty] = NoContext
    /\ vd.first[1][vd.consumed.ty] # NoContext
    /\ vd.consumed.value # NoContext

\* ------------------------------------------------------- native-core tree
\* The values stored in tree nodes.
TreeValues == {1, 2}

\* A vacant entry of the slab.
VacantNode == [live |-> FALSE, value |-> 0, parent |-> None, children |-> <<>>, height |-> 0]

\* Node { value, parent: None, children: Vec::new(), height: 0 }
NewNode(value) ==
    [live |-> TRUE, value |-> value, parent |-> None, children |-> <<>>, height |-> 0]

Occupied(t, id) == id \in 1..Len(t.nodes) /\ t.nodes[id].live

\* Slab::insert: the key vacated last, else the key after the last entry.
Slab_insert(t, node) ==
    IF t.free # <<>>
    THEN LET key == t.free[Len(t.free)]
         IN  [t |-> [t EXCEPT !.nodes[key] = node, !.free = SubSeq(@, 1, Len(@) - 1)],
              key |-> key]
    ELSE [t |-> [t EXCEPT !.nodes = Append(@, node)], key |-> Len(t.nodes) + 1]

\* Slab::remove: the entry becomes vacant (a vacant key panics).
Slab_remove(t, key) ==
    IF ~Occupied(t, key) THEN [t EXCEPT !.panicked = TRUE]
    ELSE [t EXCEPT !.nodes[key] = VacantNode, !.free = Append(@, key)]

\* Tree::set_height: the node, then each child one higher.
RECURSIVE Tree_set_height(_, _, _)
RECURSIVE Tree_set_height_children(_, _, _, _)
Tree_set_height(t, node, height) ==
    IF t.panicked THEN t
    ELSE IF ~Occupied(t, node) THEN [t EXCEPT !.panicked = TRUE]
    ELSE Tree_set_height_children([t EXCEPT !.nodes[node].height = height % 65536],
                             t.nodes[node].children, 1, (height + 1) % 65536)

Tree_set_height_children(t, children, i, height) ==
    IF t.panicked \/ i > Len(children) THEN t
    ELSE Tree_set_height_children(Tree_set_height(t, children[i], height), children, i + 1, height)

\* Tree::remove_recursive
RECURSIVE Tree_remove_recursive(_, _)
RECURSIVE Tree_remove_recursive_children(_, _, _)
Tree_remove_recursive(t, node) ==
    IF t.panicked THEN t
    ELSE IF ~Occupied(t, node) THEN [t EXCEPT !.panicked = TRUE]
    ELSE Tree_remove_recursive_children(Slab_remove(t, node), t.nodes[node].children, 1)

Tree_remove_recursive_children(t, children, i) ==
    IF t.panicked \/ i > Len(children) THEN t
    ELSE Tree_remove_recursive_children(Tree_remove_recursive(t, children[i]), children, i + 1)

\* children.retain(|child| child != &id)
RECURSIVE retain_not(_, _)
retain_not(children, id) ==
    IF children = <<>> THEN <<>>
    ELSE IF children[1] = id THEN retain_not(Tail(children), id)
    ELSE <<children[1]>> \o retain_not(Tail(children), id)

\* try_remove without the parent's retain: every child keeps its place.
Tree_try_remove_keeps_link(t, id) ==
    IF ~Occupied(t, id) THEN [t |-> t, node |-> VacantNode]
    ELSE [t |-> Tree_remove_recursive_children(Slab_remove(t, id), t.nodes[id].children, 1),
          node |-> t.nodes[id]]

\* Tree::try_remove: the node leaves the slab and its parent's children, its
\* descendants are removed; a missing id gives None.
Tree_try_remove(t, id) ==
    IF ~Occupied(t, id) THEN [t |-> t, node |-> VacantNode]
    ELSE LET node == t.nodes[id]
             s1 == Slab_remove(t, id)
             s2 == IF node.parent = None THEN s1
                   ELSE IF ~Occupied(s1, node.parent) THEN [s1 EXCEPT !.panicked = TRUE]
                   ELSE [s1 EXCEPT !.nodes[node.parent].children = retain_not(@, id)]
         IN  [t |-> Tree_remove_recursive_children(s2, node.children, 1), node |-> node]

\* Tree::remove: Tree_try_remove(id).map(|node| node.value); 0 is None
Tree_remove(t, id) ==
    LET r == Tree_try_remove(t, id)
    IN  [t |-> r.t, ret |-> IF r.node.live THEN r.node.value ELSE 0]

\* Tree::new
Tree_new(root) ==
    [nodes |-> <<NewNode(root)>>, free |-> <<>>, root |-> 1, panicked |-> FALSE]

\* Tree::create_node
Tree_create_node(t, value) == Slab_insert(t, NewNode(value))

\* Tree::add_child
Tree_add_child(t, parent, new_id) ==
    IF ~Occupied(t, new_id) \/ ~Occupied(t, parent) THEN [t EXCEPT !.panicked = TRUE]
    ELSE LET s1 == [t EXCEPT !.nodes[new_id].parent = parent,
                             !.nodes[parent].children = Append(@, new_id)]
         IN  Tree_set_height(s1, new_id, s1.nodes[parent].height + 1)

\* children.iter().Tree_position(|child| child == &id), 0 for None
Tree_position(children, id) ==
    IF \E i \in 1..Len(children) : children[i] = id
    THEN CHOOSE i \in 1..Len(children) :
            children[i] = id /\ \A j \in 1..(i - 1) : children[j] # id
    ELSE 0

\* Vec::insert(index, element), index one-based
Vec_insert(v, index, e) == SubSeq(v, 1, index - 1) \o <<e>> \o SubSeq(v, index, Len(v))

\* insert_before putting the inserted node behind id, as insert_after does.
Tree_insert_before_behind(t, id, new_id) ==
    LET parent_id == t.nodes[id].parent
        index == Tree_position(t.nodes[parent_id].children, id)
        s1 == [t EXCEPT !.nodes[new_id].parent = parent_id,
                        !.nodes[parent_id].children = Vec_insert(@, index + 1, new_id)]
    IN  Tree_set_height(s1, new_id, s1.nodes[parent_id].height + 1)

\* Tree::insert_before
Tree_insert_before(t, id, new_id) ==
    IF ~Occupied(t, id) \/ t.nodes[id].parent = None \/ ~Occupied(t, new_id)
       \/ ~Occupied(t, t.nodes[id].parent)
       \/ Tree_position(t.nodes[t.nodes[id].parent].children, id) = 0
    THEN [t EXCEPT !.panicked = TRUE]
    ELSE LET parent_id == t.nodes[id].parent
             index == Tree_position(t.nodes[parent_id].children, id)
             s1 == [t EXCEPT !.nodes[new_id].parent = parent_id,
                             !.nodes[parent_id].children = Vec_insert(@, index, new_id)]
         IN  Tree_set_height(s1, new_id, s1.nodes[parent_id].height + 1)

\* Tree::insert_after
Tree_insert_after(t, id, new_id) ==
    IF ~Occupied(t, id) \/ t.nodes[id].parent = None \/ ~Occupied(t, new_id)
       \/ ~Occupied(t, t.nodes[id].parent)
       \/ Tree_position(t.nodes[t.nodes[id].parent].children, id) = 0
    THEN [t EXCEPT !.panicked = TRUE]
    ELSE LET parent_id == t.nodes[id].parent
             index == Tree_position(t.nodes[parent_id].children, id)
             s1 == [t EXCEPT !.nodes[new_id].parent = parent_id,
                             !.nodes[parent_id].children = Vec_insert(@, index + 1, new_id)]
         IN  Tree_set_height(s1, new_id, s1.nodes[parent_id].height + 1)

\* Tree::replace: try_remove(old_id), then the parent's link and the height
Tree_replace(t, old_id, new_id) ==
    LET r == Tree_try_remove(t, old_id)
        parent_id == r.node.parent
    IN  IF ~r.node.live THEN [t EXCEPT !.panicked = TRUE]
        ELSE IF parent_id = None THEN r.t
        ELSE IF ~Occupied(r.t, parent_id) \/ ~Occupied(r.t, new_id)
        THEN [r.t EXCEPT !.panicked = TRUE]
        ELSE LET s1 == [r.t EXCEPT !.nodes[parent_id].children =
                            [i \in 1..Len(@) |-> IF @[i] = old_id THEN new_id ELSE @[i]]]
             IN  Tree_set_height(s1, new_id, s1.nodes[parent_id].height + 1)

\* a is n or an ancestor of n
RECURSIVE IsAncestor(_, _, _)
IsAncestor(t, a, n) ==
    IF n = None THEN FALSE
    ELSE IF a = n THEN TRUE
    ELSE IsAncestor(t, a, t.nodes[n].parent)

\* The nodes that can be attached under where: created, not the root, without
\* a parent, and not above the place they go to.
Detached(t, where) ==
    {n \in 1..Len(t.nodes) :
        /\ t.nodes[n].live /\ n # t.root /\ t.nodes[n].parent = None
        /\ ~IsAncestor(t, n, where)}

LiveNodes(t) == {n \in 1..Len(t.nodes) : t.nodes[n].live}

NoCall == [op |-> "", id |-> None, new_id |-> None, ret |-> 0]

\* Tree::new(root).  Ghost: before is the tree before the last call, last the
\* call, replaced the number of replace calls made.
InitTree ==
    /\ InitDiffIdle /\ InitChanIdle
    /\ \E root \in TreeValues :
          vd = [tree |-> Tree_new(root), before |-> Tree_new(root), last |-> NoCall,
                replaced |-> 0]

Called(t, op, id, new_id, ret) ==
    vd' = [tree |-> t, before |-> vd.tree,
           last |-> [op |-> op, id |-> id, new_id |-> new_id, ret |-> ret],
           replaced |-> IF op = "replace" THEN vd.replaced + 1 ELSE vd.replaced]

CreateNode ==
    /\ Cardinality(LiveNodes(vd.tree)) < MaxNodes
    /\ \E value \in TreeValues :
          LET c == Tree_create_node(vd.tree, value)
          IN  Called(c.t, "create_node", None, c.key, 0)
    /\ UNCHANGED <<diffVars, chanVars>>

AddChild ==
    /\ \E parent \in LiveNodes(vd.tree) :
          \E new_id \in Detached(vd.tree, parent) :
             Called(Tree_add_child(vd.tree, parent, new_id), "add_child", parent, new_id, 0)
    /\ UNCHANGED <<diffVars, chanVars>>

InsertBefore ==
    /\ \E id \in LiveNodes(vd.tree) :
          /\ vd.tree.nodes[id].parent # None
          /\ \E new_id \in Detached(vd.tree, id) :
                Called(Tree_insert_before(vd.tree, id, new_id), "insert_before", id, new_id, 0)
    /\ UNCHANGED <<diffVars, chanVars>>

InsertAfter ==
    /\ \E id \in LiveNodes(vd.tree) :
          /\ vd.tree.nodes[id].parent # None
          /\ \E new_id \in Detached(vd.tree, id) :
                Called(Tree_insert_after(vd.tree, id, new_id), "insert_after", id, new_id, 0)
    /\ UNCHANGED <<diffVars, chanVars>>

TreeRemove ==
    /\ \E id \in 1..MaxNodes :
          LET r == Tree_remove(vd.tree, id)
          IN  Called(r.t, "remove", id, None, r.ret)
    /\ UNCHANGED <<diffVars, chanVars>>

\* replace(old, new) of a node other than the root by a created node that has
\* no parent yet, at most MaxReplaces times.
TreeReplace ==
    /\ vd.replaced < MaxReplaces
    /\ \E old_id \in LiveNodes(vd.tree) \ {vd.tree.root} :
          \E new_id \in Detached(vd.tree, old_id) :
             Called(Tree_replace(vd.tree, old_id, new_id), "replace", old_id, new_id, 0)
    /\ UNCHANGED <<diffVars, chanVars>>

NextTree == CreateNode \/ AddChild \/ InsertBefore \/ InsertAfter \/ TreeRemove

SpecTree == InitTree /\ [][NextTree]_vars

\* The same tree with replace among its calls.
NextTreeReplace == NextTree \/ TreeReplace

SpecTreeReplace == InitTree /\ [][NextTreeReplace]_vars

\* A sequence without its i-th element.
DropAt(v, i) == SubSeq(v, 1, i - 1) \o SubSeq(v, i + 1, Len(v))

\* C23: insert_before(id, new) places new immediately before id and
\* insert_after(id, new) immediately after id in the children of id's parent,
\* the other children keep their order, new's parent is id's parent and its
\* height the parent's height + 1; add_child appends the child as the last
\* child, with height parent + 1.
C23_InsertPlacesNode ==
    LET b == vd.before
        a == vd.tree
        id == vd.last.id
        n == vd.last.new_id
    IN  /\ vd.last.op \in {"insert_before", "insert_after"} =>
              LET p == b.nodes[id].parent
                  oldc == b.nodes[p].children
                  newc == a.nodes[p].children
              IN  /\ ~a.panicked
                  /\ Len(newc) = Len(oldc) + 1
                  /\ \E i \in 1..Len(newc) :
                        /\ newc[i] = n
                        /\ DropAt(newc, i) = oldc
                        /\ IF vd.last.op = "insert_before"
                           THEN i < Len(newc) /\ newc[i + 1] = id
                           ELSE i > 1 /\ newc[i - 1] = id
                  /\ a.nodes[n].parent = p
                  /\ a.nodes[n].height = a.nodes[p].height + 1
        /\ vd.last.op = "add_child" =>
              /\ ~a.panicked
              /\ a.nodes[id].children = Append(b.nodes[id].children, n)
              /\ a.nodes[n].parent = id
              /\ a.nodes[n].height = a.nodes[id].height + 1

\* A node inserted before a second child.
C23_Witness ==
    /\ vd.last.op = "insert_before"
    /\ LET p == vd.before.nodes[vd.last.id].parent
       IN  Tree_position(vd.before.nodes[p].children, vd.last.id) = 2

\* The nodes of the subtree of id: id and its descendants.
Subtree(t, id) == {n \in LiveNodes(t) : IsAncestor(t, id, n)}

\* C24: remove(id) of an existing node returns its value, removes it and all
\* its descendants (size drops by their number), takes id out of its parent's
\* children and keeps the order of the remaining siblings, and leaves every
\* other node's value, parent and height unchanged; remove of a missing id
\* returns None and changes nothing.
C24_RemoveSubtree ==
    LET b == vd.before
        a == vd.tree
        id == vd.last.id
    IN  vd.last.op = "remove" =>
            IF Occupied(b, id)
            THEN LET sub == Subtree(b, id)
                     p == b.nodes[id].parent
                 IN  /\ ~a.panicked
                     /\ vd.last.ret = b.nodes[id].value
                     /\ \A n \in sub : ~Occupied(a, n)
                     /\ Cardinality(LiveNodes(a)) = Cardinality(LiveNodes(b)) - Cardinality(sub)
                     /\ p # None =>
                           a.nodes[p].children =
                               SelectSeq(b.nodes[p].children, LAMBDA c : c # id)
                     /\ \A n \in LiveNodes(b) \ sub :
                           /\ Occupied(a, n)
                           /\ a.nodes[n].value = b.nodes[n].value
                           /\ a.nodes[n].parent = b.nodes[n].parent
                           /\ a.nodes[n].height = b.nodes[n].height
                           /\ n # p => a.nodes[n].children = b.nodes[n].children
            ELSE vd.last.ret = 0 /\ a = b

\* A first child that has a child of its own and a sibling was removed.
C24_Witness ==
    /\ vd.last.op = "remove"
    /\ Occupied(vd.before, vd.last.id)
    /\ vd.before.nodes[vd.last.id].children # <<>>
    /\ vd.before.nodes[vd.last.id].parent # None
    /\ Len(vd.tree.nodes[vd.before.nodes[vd.last.id].parent].children) >= 1
    /\ Cardinality(LiveNodes(vd.tree)) = 2

\* The locations an owner that was not dropped holds.
HeldLocations ==
    UNION {Range(vd.owners[o].owned) :
             o \in {p \in 1..Len(vd.owners) : vd.owners[p].state # "dropped"}}

\* What claim can return is empty, no location is recycled twice or recycled
\* while an owner holds it, and the assertion of replace has not failed.
StoreLocationsSound ==
    /\ ~vd.panicked
    /\ \A i \in 1..Len(vd.recycled) : vd.locations[vd.recycled[i]].data = NoData
    /\ Injective(vd.recycled)
    /\ Range(vd.recycled) \cap HeldLocations = {}

\* One step of a location's generation: it does not decrease, and it
\* increases exactly when the step drops a value the location held.
GenerationStep ==
    \A l \in 1..Len(vd.locations) :
        /\ vd'.locations[l].generation >= vd.locations[l].generation
        /\ (vd'.locations[l].generation > vd.locations[l].generation)
              <=> (vd.locations[l].data # NoData /\ vd'.locations[l].data = NoData)

\* C39: after any sequence of owner creations, inserts, owner drops and owner
\* leaks, every location claim can return is empty (the assertion of replace
\* never fails), no location is twice in the recycle list or recycled while a
\* live owner holds it, and a location's generation never decreases and
\* increases exactly when a held value is dropped.
C39_StoreLocations == [](StoreLocationsSound) /\ [][GenerationStep]_vars

\* A location that was recycled and holds a value again while another dropped
\* location waits in the recycle list.
C39_Witness ==
    /\ ~vd.panicked
    /\ vd.recycled # <<>>
    /\ \E l \in 1..Len(vd.locations) :
          /\ vd.locations[l].data # NoData
          /\ l \in HeldLocations
          /\ \E k \in 1..Len(vd.handles) :
                vd.handles[k].raw = l /\ OwnerState(vd.handles[k]) = "dropped"

\* ------------------------------------------------------ anchor specification
\* find_first_element and find_last_element entered with one anchor node.  The
\* anchor is a concrete node, a component, or a fragment of up to MaxChildren
\* nodes; the arena holds two scopes, the root of scope 2 leading into scope 1.
\* Fragments may be empty and a component may have no scope, or one the arena
\* does not hold.
AnchorLeaves ==
    {Node("Text", "", 1, 1, "a"), Node("Element", "", 2, 2, ""),
     Node("Placeholder", "", 3, 3, "")}

Frag(children) == [Node("Fragment", "", None, 4, "") EXCEPT !.children = children]

Comp(scope) == [Node("Component", "", None, 5, "") EXCEPT !.scope = scope]

AnchorItems ==
    AnchorLeaves \cup {Comp(1), Comp(2), Frag(<<>>),
                       Frag(<<Node("Placeholder", "", 3, 3, ""), Node("Text", "", 1, 1, "a")>>)}

Anchors ==
    AnchorLeaves \cup {Comp(sid) : sid \in {None, 1, 2, 3}}
                 \cup {Frag(cs) : cs \in SeqsUpTo(AnchorItems, MaxChildren)}

InitAnchor ==
    /\ pc = "anchor"
    /\ old \in Anchors
    /\ new = old
    /\ \E fin1 \in AnchorLeaves \cup {Frag(<<>>)} \cup {Frag(<<a, b>>) : a, b \in AnchorLeaves},
          fin2 \in {Comp(1)} \cup {Frag(<<Comp(1), l>>) : l \in AnchorLeaves}
                            \cup {Frag(<<l, Comp(1)>>) : l \in AnchorLeaves} :
          reg = Registry(FALSE, <<NewScope(1, fin1, fin1), NewScope(1, fin2, fin2)>>, TRUE, 9)
    /\ dom = <<>> /\ stack = <<>> /\ ip = 0
    /\ InitChanIdle
    /\ vd = [first |-> [called |-> FALSE, ret |-> None],
             last |-> [called |-> FALSE, ret |-> None]]

FindFirstElement ==
    /\ pc = "anchor"
    /\ ~vd.first.called
    /\ vd' = [vd EXCEPT !.first = [called |-> TRUE, ret |-> find_first_element(old, reg)]]
    /\ UNCHANGED <<diffVars, chanVars>>

FindLastElement ==
    /\ pc = "anchor"
    /\ ~vd.last.called
    /\ vd' = [vd EXCEPT !.last = [called |-> TRUE, ret |-> find_last_element(old, reg)]]
    /\ UNCHANGED <<diffVars, chanVars>>

NextAnchor == FindFirstElement \/ FindLastElement

SpecAnchor == InitAnchor /\ [][NextAnchor]_vars

\* The concrete nodes beneath a node in render order: a fragment's children one
\* after the other, a component's rendered root in its place.
RECURSIVE RenderOrder(_)
RECURSIVE RenderOrderOf(_, _)
RenderOrderOf(nodes, i) ==
    IF i > Len(nodes) THEN <<>>
    ELSE RenderOrder(nodes[i]) \o RenderOrderOf(nodes, i + 1)

RenderOrder(n) ==
    CASE n.kind = "Fragment" -> RenderOrderOf(n.children, 1)
      [] n.kind = "Component" ->
            IF n.scope \in DOMAIN reg.scopes THEN RenderOrder(reg.scopes[n.scope].fin)
            ELSE <<>>
      [] OTHER -> <<n>>

\* Every fragment beneath the node has a child and every component a scope of
\* the arena.
RECURSIVE WellFormedAnchor(_)
WellFormedAnchor(n) ==
    CASE n.kind = "Fragment" ->
            /\ Len(n.children) > 0
            /\ \A i \in 1..Len(n.children) : WellFormedAnchor(n.children[i])
      [] n.kind = "Component" ->
            /\ n.scope \in DOMAIN reg.scopes
            /\ WellFormedAnchor(reg.scopes[n.scope].fin)
      [] OTHER -> TRUE

\* C32: under an anchor whose fragments are non-empty and whose components are
\* mounted, find_first_element returns the id of the first concrete node in
\* render order and find_last_element the id of the last one.
C32_AnchorResolves ==
    WellFormedAnchor(old) =>
        /\ vd.first.called => vd.first.ret = RenderOrder(old)[1].id
        /\ vd.last.called => vd.last.ret = RenderOrder(old)[Len(RenderOrder(old))].id

\* Both lookups answered for a fragment whose first child is a component that
\* leads through scope 2 into scope 1, with different first and last nodes.
C32_Witness ==
    /\ pc = "anchor" /\ WellFormedAnchor(old)
    /\ vd.first.called /\ vd.last.called
    /\ old.kind = "Fragment" /\ Len(old.children) = 2
    /\ old.children[1].kind = "Component" /\ old.children[1].scope = 2
    /\ reg.scopes[2].fin.kind = "Fragment" /\ reg.scopes[1].fin.kind = "Fragment"
    /\ vd.first.ret # vd.last.ret
    /\ Len(RenderOrder(old)) >= 4

\* How often id stands in a children list.
Occurrences(children, id) == Cardinality({i \in 1..Len(children) : children[i] = id})

\* Parent fields, children lists and heights agree.
TreeLinked(t) ==
    /\ \A n \in LiveNodes(t) :
          t.nodes[n].parent # None =>
              /\ t.nodes[n].parent \in LiveNodes(t)
              /\ Occurrences(t.nodes[t.nodes[n].parent].children, n) = 1
              /\ t.nodes[n].height = t.nodes[t.nodes[n].parent].height + 1
    /\ \A p \in LiveNodes(t) :
          \A i \in 1..Len(t.nodes[p].children) :
              /\ t.nodes[p].children[i] \in LiveNodes(t)
              /\ t.nodes[t.nodes[p].children[i]].parent = p

\* C38: after any sequence of create_node, add_child, insert_before,
\* insert_after, remove and replace, every node that records a parent is
\* exactly once among that parent's children, every id in a children list is
\* a node whose parent owns the list, heights are parent + 1, and after
\* replace(old, new) the node new stands where old stood among the children of
\* old's parent.
C38_TreeLinked ==
    ~vd.tree.panicked =>
        /\ TreeLinked(vd.tree)
        /\ (vd.last.op = "replace" /\ vd.before.nodes[vd.last.id].parent # None) =>
              LET parent_id == vd.before.nodes[vd.last.id].parent
                  was == vd.before.nodes[parent_id].children
              IN  /\ vd.tree.nodes[parent_id].children =
                        [i \in 1..Len(was) |-> IF was[i] = vd.last.id THEN vd.last.new_id
                                               ELSE was[i]]
                  /\ vd.tree.nodes[vd.last.new_id].parent = parent_id

\* A replace of a node that stood in front of a sibling.
C38_Witness ==
    /\ ~vd.tree.panicked
    /\ vd.last.op = "replace"
    /\ vd.before.nodes[vd.last.id].parent # None
    /\ LET was == vd.before.nodes[vd.before.nodes[vd.last.id].parent].children
       IN  Len(was) = 2 /\ was[1] = vd.last.id
    /\ vd.tree.nodes[vd.last.new_id].live

====
